---- MODULE Spec2Model ----
(***************************************************************************)
(* State-machine model of the resource stores (TextureStore, ShaderStore), *)
(* the hot-reload Watcher registry, the samplerManager and the per-frame   *)
(* RenderState of maja42/nora.                                             *)
(*                                                                         *)
(* The subsystems are explored in separate runs, selected by the variable  *)
(* scenario: "texture" drives the TextureStore while the files change      *)
(* under it and "shader" drives the ShaderStore (both under Spec),         *)
(* "sampler" drives the samplerManager over a TextureStore whose files     *)
(* stay put (SamplerSpec), "render" draws frames over a ShaderStore        *)
(* (RenderSpec), "scene" draws frames while the application changes its    *)
(* meshes (SceneSpec), "geometry" validates one geometry (GeometrySpec).   *)
(* "append" builds a Geometry and appends to it (AppendSpec).              *)
(* In these runs every call is one step.  "hotTexture" and "hotShader"     *)
(* (HotSpec, and HotFairSpec with a fair scheduler) and "hotShaderOneFile" *)
(* (HotOneFileSpec) follow the goroutines that share one store while it is *)
(* hot-reloaded, lock by lock.                                             *)
(* The two stores share no state in the source (each has its own map,      *)
(* lock, id sequence and Watcher), and the samplerManager only reads the   *)
(* TextureStore.                                                           *)
(***************************************************************************)
EXTENDS Integers, Sequences, FiniteSets, TLC

(* ------------------------------ bounds -------------------------------- *)
\* GPU object names (textures resp. programs) one run may create
MaxObjects == 3
\* highest generation a run drives a resource to
MaxGen == 2
\* the largest gl.MAX_TEXTURE_IMAGE_UNITS a driver reports
MaxSampler == 2
\* draw calls one frame issues
MaxDraws == 2
\* vertexCount passed to the geometry validation, and the largest index
MaxVertexCount == 3
\* length of a short vertex slice, in floats
MaxFloats == 4
\* length of an index slice
MaxIndices == 3
\* number of vertex attribute names
MaxAttributes == 2
\* vertices of one part of a geometry
MaxPartVertices == 2
\* calls one goroutine makes on a store in a hot-reloading run
MaxCalls == 2
\* file changes during a hot-reloading run
MaxEvents == 1

\* the runs of Spec; SamplerSpec and RenderSpec have one scenario each
Scenarios == {"texture", "shader"}
\* runs in which the TextureStore is loaded, reloaded and unloaded
TexStoreRuns == {"texture", "sampler"}
\* runs in which the ShaderStore is loaded, reloaded and unloaded
ShaderStoreRuns == {"shader", "render", "scene"}
\* the runs that draw frames
RenderRuns == {"render", "scene"}

TexKeys == {"tex:a", "tex:b"}
\* paths as the caller writes them; "./10.png" is an unclean spelling of "10.png"
TexPaths == {"10.png", "./10.png", "20.png"}
\* file content: 0 = missing or undecodable, n > 0 = an image of size (10n, 10n)
FileContents == {0, 1, 2}

Nil == 0
\* a nil slice, as opposed to an empty one
NilSlice == -1
\* a nil *Material
NoMaterial == "nil"
NoKey == "-"

\* filepath.Clean on the spellings above
Clean(p) == IF p = "./10.png" THEN "10.png" ELSE p

CleanTexPaths == {Clean(p) : p \in TexPaths}

Materials == {"mat1", "mat2"}
Meshes == {"mesh1", "mesh2", "mesh3", "mesh4"}
ShaderKeys == {"sh:a", "sh:b"}
ShaderPaths == {"a.glsl", "b.glsl"}
\* ShaderProgramDefinition{VertexShaderPath, FragmentShaderPath}; the second
\* definition names one file for both stages
ShaderDefs == {[VertexShaderPath |-> "a.glsl", FragmentShaderPath |-> "b.glsl"],
               [VertexShaderPath |-> "b.glsl", FragmentShaderPath |-> "b.glsl"]}
\* source content: 0 = missing or does not compile, 1 = compiles and declares
\* the modelTransform and vpMatrix uniforms, 2 = compiles, declares neither;
\* both declare the material uniforms "color" and "tex", 1 also "glow"

VARIABLES
    scenario,        \* which subsystem this run drives
    texFiles,        \* the filesystem: clean texture path -> content
    textures,        \* TextureStore.textures : TextureKey -> loadedTexture
    texIDSeq,        \* texIDSeq
    texNames,        \* number of texture names gl.CreateTexture handed out
    texObj,          \* texture objects not deleted: name -> [size]
    texWatch,        \* TextureStore.fsWatcher.targets : path -> list of keys
    activeBindings,  \* samplerManager.activeBindings
    texBinding,      \* samplerManager.texBinding : TextureKey -> texBinding
    texSeen,         \* per key, the generation resolve last returned (history)
    shaderFiles,     \* the filesystem: shader source path -> content
    shaderPrograms,  \* ShaderStore.shaderPrograms : ShaderProgKey -> loadedShader
    sProgIDSeq,      \* sProgIDSeq
    progNames,       \* number of program names gl.CreateProgram handed out
    progObj,         \* programs not deleted: name -> vertex source it was built from
    shaderWatch,     \* ShaderStore.fsWatcher.targets : path -> list of keys
    shaderM,         \* ShaderStore.m: "free" or "locked"
    shaderSeen,      \* per key, the generation resolve last returned (history)
    materials,       \* the Material objects: name -> [sProgKey, textures, uniformf]
    meshes,          \* the Mesh objects: name -> [material, ibo, indexCount, ...]
    rs,              \* the RenderState of the current frame
    glCalls,         \* calls the current frame made (instrumented gl API)
    applied,         \* applyMaterial calls of the frame that returned a program
    elementArrayBuffer, \* the mesh whose ibo is bound to ELEMENT_ARRAY_BUFFER
    geometry,        \* a Geometry object of the application
    pc,              \* per goroutine, the position in the call it is in
    local,           \* per goroutine, the locals of that call
    hotStore,        \* the store the goroutines share: m, cancelHotReloading, map
    hotWatcher,      \* its fsWatcher: m, targets, watcher, and fsnotify's state
    hotObj,          \* its GPU objects not deleted: name -> state of the build
    ctxDone,         \* the context of StartHotReloading is cancelled
    fileOK,          \* the files of the definition build
    fatal,           \* the process died of a panic or a fatal runtime error
    ret              \* what the last call returned / reported


texVars == <<texFiles, textures, texIDSeq, texNames, texObj, texWatch,
             activeBindings, texBinding, texSeen>>
shaderVars == <<shaderFiles, shaderPrograms, sProgIDSeq, progNames, progObj,
                shaderWatch, shaderM, shaderSeen>>
renderVars == <<materials, meshes, rs, glCalls, applied, elementArrayBuffer,
                geometry>>
hotVars == <<pc, local, hotStore, hotWatcher, hotObj, ctxDone, fileOK, fatal>>

(* ------------------------------ helpers ------------------------------- *)
MapPut(m, k, v) == [x \in (DOMAIN m) \cup {k} |-> IF x = k THEN v ELSE m[x]]
MapDel(m, k) == [x \in (DOMAIN m) \ {k} |-> m[x]]

\* slice with the element at (1-based) position i removed
RemoveAt(s, i) == SubSeq(s, 1, i - 1) \o SubSeq(s, i + 1, Len(s))

ZeroID == [id |-> 0, generation |-> 0]

\* the record every call leaves in ret
Ret(op, key, err) ==
    [op |-> op, key |-> key, err |-> err, returned |-> TRUE, arg |-> "",
     wasLoaded |-> FALSE, buildFailed |-> FALSE,
     before |-> [id |-> ZeroID, obj |-> Nil], owned |-> {},
     size |-> 0, created |-> Nil, destroyed |-> <<>>,
     full |-> FALSE, table |-> <<>>, uniform |-> -1, reported |-> FALSE,
     geometry |-> <<>>, reports |-> {}, panicked |-> FALSE]

\* what a call without results leaves: only whether an assertion was logged
Void(reported) == [Ret("void", NoKey, FALSE) EXCEPT !.reported = reported]

(* ------------------------- hotreload.Watcher -------------------------- *)
\* Watcher.Add: append key to the path's list
WatcherAdd(targets, path, key) ==
    LET p == Clean(path)
        old == IF p \in DOMAIN targets THEN targets[p] ELSE <<>>
    IN  MapPut(targets, p, Append(old, key))

\* mutant: the key stays in the path's list
WatcherRemove_keep(targets, path, key) ==
    [targets |-> targets, err |-> Clean(path) \notin DOMAIN targets]

\* Watcher.Remove: drop the first occurrence of key; error if absent
WatcherRemove(targets, path, key) ==
    LET p == Clean(path) IN
    IF p \notin DOMAIN targets
    THEN [targets |-> targets, err |-> TRUE]
    ELSE LET usages == targets[p]
             hits == {i \in 1..Len(usages) : usages[i] = key}
         IN  IF hits = {}
             THEN [targets |-> targets, err |-> TRUE]
             ELSE LET idx == CHOOSE i \in hits : \A j \in hits : i <= j
                  IN  [targets |-> MapPut(targets, p, RemoveAt(usages, idx)),
                       err |-> FALSE]

\* keys the watcher lists under path
Watched(targets, path) ==
    IF path \in DOMAIN targets
    THEN {targets[path][i] : i \in 1..Len(targets[path])}
    ELSE {}

(* ------------------------------ texture ------------------------------- *)
\* newTexture: gl.CreateTexture hands out a fresh name, the size is (0,0)
newTexture == texNames + 1

\* texture.Load fails when the file cannot be opened or decoded
textureLoadFails(path) == texFiles[path] = 0

\* mutant: the texture is not deleted
textureDestroy_forgotten(objs, t) == objs

\* texture.Destroy: gl.DeleteTexture
textureDestroy(objs, t) == MapDel(objs, t)

(* ---------------------------- TextureStore ---------------------------- *)
\* newTexID: the sequence is incremented first, generation starts at 0
newTexID == [id |-> texIDSeq + 1, generation |-> 0]

\* TextureStore.resolve
TextureStore_resolve(key) ==
    IF key \in DOMAIN textures
    THEN [id |-> textures[key].id, obj |-> textures[key].texture]
    ELSE [id |-> ZeroID, obj |-> Nil]

\* the texture objects the map holds for the given keys
TexOwned(keys) ==
    UNION {{textures[k].texture, textures[k].intermediateTexture} \ {Nil} :
              k \in keys \cap DOMAIN textures}

\* history: remember the generation resolve can return after this step
TexSeenNext ==
    texSeen' = [k \in TexKeys |->
                  IF k \in DOMAIN textures' THEN textures'[k].id.generation
                  ELSE texSeen[k]]


\* mutant: the generation is left as it was
swapTextures_sameGeneration(lt, inter) ==
    [id |-> lt.id, texture |-> inter, intermediateTexture |-> lt.texture,
     definition |-> lt.definition]

\* reloadTexture after a successful build: live and intermediate texture
\* change places, the generation is incremented
swapTextures(lt, inter) ==
    [id |-> [id |-> lt.id.id, generation |-> lt.id.generation + 1],
     texture |-> inter,
     intermediateTexture |-> lt.texture,
     definition |-> lt.definition]

\* mutant: the entry is swapped and written back before the build result is
\* looked at
reloadTexture_swapFirst(key) ==
    IF key \notin DOMAIN textures
    THEN [textures |-> textures, texObj |-> texObj, texNames |-> texNames,
          err |-> TRUE, size |-> 0, created |-> Nil]
    ELSE
    LET lt == textures[key]
        fresh == lt.intermediateTexture = Nil
        inter == IF fresh THEN texNames + 1 ELSE lt.intermediateTexture
        objs == IF fresh THEN MapPut(texObj, inter, 0) ELSE texObj
        fails == texFiles[lt.definition] = 0
    IN  [textures |-> MapPut(textures, key, swapTextures(lt, inter)),
         texObj |-> IF fails THEN objs
                    ELSE [objs EXCEPT ![inter] = texFiles[lt.definition]],
         texNames |-> IF fresh THEN texNames + 1 ELSE texNames,
         err |-> fails,
         size |-> texFiles[lt.definition],
         created |-> IF fresh THEN inter ELSE Nil]

\* TextureStore.reloadTexture, as a function of the current state: the new
\* map and object table, the error flag and the size it returns.  The
\* loadedTexture it works on is a copy of the map entry; it is written back
\* only after a successful build.
reloadTexture(key) ==
    IF key \notin DOMAIN textures
    THEN [textures |-> textures, texObj |-> texObj, texNames |-> texNames,
          err |-> TRUE, size |-> 0, created |-> Nil]
    ELSE
    LET lt == textures[key]
        fresh == lt.intermediateTexture = Nil
        inter == IF fresh THEN newTexture ELSE lt.intermediateTexture
        objs == IF fresh THEN MapPut(texObj, inter, 0) ELSE texObj
        names == IF fresh THEN texNames + 1 ELSE texNames
    IN  IF textureLoadFails(lt.definition)
        THEN [textures |-> textures, texObj |-> objs, texNames |-> names,
              err |-> TRUE, size |-> 0,
              created |-> IF fresh THEN inter ELSE Nil]
        ELSE [textures |-> MapPut(textures, key, swapTextures(lt, inter)),
              texObj |-> [objs EXCEPT ![inter] = texFiles[lt.definition]],
              texNames |-> names,
              err |-> FALSE,
              size |-> texFiles[lt.definition],
              created |-> IF fresh THEN inter ELSE Nil]

\* a reload of key stays within the bounds of the run
ReloadInBounds(key) ==
    key \in DOMAIN textures =>
        /\ textures[key].id.generation < MaxGen
        /\ textures[key].intermediateTexture = Nil =>
               texNames < MaxObjects

\* TextureStore.Load(key, def)
TextureStore_Load(key, def) ==
    LET path == Clean(def) IN
    /\ scenario \in TexStoreRuns
    /\ IF key \in DOMAIN textures
       THEN \* "already loaded. Replacing it...": def is stored in the local
            \* copy of the entry only, then the texture is reloaded
            LET r == reloadTexture(key) IN
            /\ ReloadInBounds(key)
            /\ textures' = r.textures
            /\ texObj' = r.texObj
            /\ texNames' = r.texNames
            /\ ret' = [Ret("Load", key, r.err) EXCEPT
                          !.arg = path, !.wasLoaded = TRUE,
                          !.buildFailed = textureLoadFails(path),
                          !.before = TextureStore_resolve(key),
                          !.size = r.size, !.created = r.created]
            /\ UNCHANGED <<texIDSeq, texWatch>>
       ELSE LET id == newTexID
                tex == newTexture
            IN
            /\ texNames < MaxObjects
            /\ texNames' = texNames + 1
            /\ texIDSeq' = texIDSeq + 1
            /\ IF textureLoadFails(path)
               THEN /\ texObj' = textureDestroy(MapPut(texObj, tex, 0), tex)
                    /\ ret' = [Ret("Load", key, TRUE) EXCEPT
                                  !.arg = path, !.created = tex,
                                  !.buildFailed = TRUE,
                                  !.destroyed = <<tex>>]
                    /\ UNCHANGED <<textures, texWatch>>
               ELSE /\ texObj' = MapPut(texObj, tex, texFiles[path])
                    /\ textures' = MapPut(textures, key,
                                      [id |-> id, texture |-> tex,
                                       intermediateTexture |-> Nil,
                                       definition |-> path])
                    /\ texWatch' = WatcherAdd(texWatch, path, key)
                    /\ ret' = [Ret("Load", key, FALSE) EXCEPT
                                  !.arg = path, !.size = texFiles[path],
                                  !.created = tex]
    /\ TexSeenNext
    /\ UNCHANGED <<scenario, texFiles, activeBindings, texBinding>>
    /\ UNCHANGED <<shaderVars, renderVars, hotVars>>

\* TextureStore.Reload(key)
TextureStore_Reload(key) ==
    LET r == reloadTexture(key) IN
    /\ scenario \in TexStoreRuns
    /\ ReloadInBounds(key)
    /\ textures' = r.textures
    /\ texObj' = r.texObj
    /\ texNames' = r.texNames
    /\ ret' = [Ret("Reload", key, r.err) EXCEPT
                  !.wasLoaded = key \in DOMAIN textures,
                  !.buildFailed = /\ key \in DOMAIN textures
                                  /\ textureLoadFails(textures[key].definition),
                  !.before = TextureStore_resolve(key),
                  !.size = r.size, !.created = r.created]
    /\ TexSeenNext
    /\ UNCHANGED <<scenario, texFiles, texIDSeq, texWatch, activeBindings,
                   texBinding>>
    /\ UNCHANGED <<shaderVars, renderVars, hotVars>>

\* TextureStore.unload on a store state st = [textures, texObj, texWatch,
\* destroyed, internal]; destroyed lists the Destroy calls made, internal
\* records a failed iAssertTrue
TextureStore_unload(st, key) ==
    IF key \notin DOMAIN st.textures
    THEN st
    ELSE LET lt == st.textures[key]
             rm == WatcherRemove(st.texWatch, lt.definition, key)
             o1 == textureDestroy(st.texObj, lt.texture)
             o2 == IF lt.intermediateTexture # Nil
                   THEN textureDestroy(o1, lt.intermediateTexture)
                   ELSE o1
         IN  [textures |-> MapDel(st.textures, key),
              texObj |-> o2,
              texWatch |-> rm.targets,
              destroyed |-> st.destroyed \o <<lt.texture>> \o
                            (IF lt.intermediateTexture # Nil
                             THEN <<lt.intermediateTexture>> ELSE <<>>),
              internal |-> st.internal \/ rm.err]

TexStoreState ==
    [textures |-> textures, texObj |-> texObj, texWatch |-> texWatch,
     destroyed |-> <<>>, internal |-> FALSE]

\* TextureStore.Unload(key)
TextureStore_Unload(key) ==
    LET st == TextureStore_unload(TexStoreState, key) IN
    /\ scenario \in TexStoreRuns
    /\ textures' = st.textures
    /\ texObj' = st.texObj
    /\ texWatch' = st.texWatch
    /\ ret' = [Ret("Unload", key, FALSE) EXCEPT
                  !.wasLoaded = key \in DOMAIN textures,
                  !.before = TextureStore_resolve(key),
                  !.arg = IF key \in DOMAIN textures
                          THEN textures[key].definition ELSE "",
                  !.destroyed = st.destroyed,
                  !.owned = TexOwned({key}),
                  !.reported = st.internal]
    /\ TexSeenNext
    /\ UNCHANGED <<scenario, texFiles, texIDSeq, texNames, activeBindings,
                   texBinding>>
    /\ UNCHANGED <<shaderVars, renderVars, hotVars>>

\* the loop of UnloadAll: unload every key of the map, in any order
RECURSIVE TexUnloadEach(_, _)
TexUnloadEach(st, keys) ==
    IF keys = {} THEN st
    ELSE LET k == CHOOSE x \in keys : TRUE
         IN  TexUnloadEach(TextureStore_unload(st, k), keys \ {k})

\* TextureStore.UnloadAll
TextureStore_UnloadAll ==
    LET st == TexUnloadEach(TexStoreState, DOMAIN textures) IN
    /\ scenario \in TexStoreRuns
    /\ textures # <<>>
    /\ textures' = st.textures
    /\ texObj' = st.texObj
    /\ texWatch' = st.texWatch
    /\ ret' = [Ret("UnloadAll", NoKey, FALSE) EXCEPT
                  !.owned = TexOwned(DOMAIN textures),
                  !.destroyed = st.destroyed, !.reported = st.internal]
    /\ TexSeenNext
    /\ UNCHANGED <<scenario, texFiles, texIDSeq, texNames, activeBindings,
                   texBinding>>
    /\ UNCHANGED <<shaderVars, renderVars, hotVars>>

\* the environment rewrites, creates or deletes a texture file
SetTexFile(path, content) ==
    /\ scenario = "texture"
    /\ texFiles[path] # content
    /\ texFiles' = [texFiles EXCEPT ![path] = content]
    /\ ret' = Ret("SetTexFile", NoKey, FALSE)
    /\ UNCHANGED <<scenario, textures, texIDSeq, texNames, texObj, texWatch,
                   activeBindings, texBinding, texSeen>>
    /\ UNCHANGED <<shaderVars, renderVars, hotVars>>


(* --------------------------- shaderProgram ---------------------------- *)
\* newShaderProgram: gl.CreateProgram hands out a fresh name, nothing linked
newShaderProgram == progNames + 1

\* shaderProgram.Load fails when a stage cannot be read or compiled
shaderLoadFails(def) ==
    \/ shaderFiles[def.VertexShaderPath] = 0
    \/ shaderFiles[def.FragmentShaderPath] = 0

\* shaderProgram.Destroy: gl.DeleteProgram
programDestroy(objs, p) == MapDel(objs, p)

(* ----------------------------- ShaderStore ---------------------------- *)
\* newShaderProgID: the sequence is incremented first, generation starts at 0
newShaderProgID == [id |-> sProgIDSeq + 1, generation |-> 0]

\* ShaderStore.resolve: the zero loadedShader for a key that is not loaded
ShaderStore_resolve(key) ==
    IF key \in DOMAIN shaderPrograms
    THEN [id |-> shaderPrograms[key].id, obj |-> shaderPrograms[key].program]
    ELSE [id |-> ZeroID, obj |-> Nil]

\* the programs the map holds for the given keys
ShaderOwned(keys) ==
    UNION {{shaderPrograms[k].program, shaderPrograms[k].intermediateProgram}
              \ {Nil} : k \in keys \cap DOMAIN shaderPrograms}

ShaderSeenNext ==
    shaderSeen' = [k \in ShaderKeys |->
                     IF k \in DOMAIN shaderPrograms'
                     THEN shaderPrograms'[k].id.generation
                     ELSE shaderSeen[k]]

\* ShaderStore.reload, as a function of the current state (see reloadTexture)
reload(key) ==
    IF key \notin DOMAIN shaderPrograms
    THEN [shaderPrograms |-> shaderPrograms, progObj |-> progObj,
          progNames |-> progNames, err |-> TRUE, created |-> Nil]
    ELSE
    LET ls == shaderPrograms[key]
        fresh == ls.intermediateProgram = Nil
        inter == IF fresh THEN newShaderProgram ELSE ls.intermediateProgram
        objs == IF fresh THEN MapPut(progObj, inter, 0) ELSE progObj
        names == IF fresh THEN progNames + 1 ELSE progNames
    IN  IF shaderLoadFails(ls.definition)
        THEN [shaderPrograms |-> shaderPrograms, progObj |-> objs,
              progNames |-> names, err |-> TRUE,
              created |-> IF fresh THEN inter ELSE Nil]
        ELSE [shaderPrograms |-> MapPut(shaderPrograms, key,
                              [id |-> [id |-> ls.id.id,
                                       generation |-> ls.id.generation + 1],
                               program |-> inter,
                               intermediateProgram |-> ls.program,
                               definition |-> ls.definition]),
              progObj |-> [objs EXCEPT ![inter] =
                               shaderFiles[ls.definition.VertexShaderPath]],
              progNames |-> names,
              err |-> FALSE,
              created |-> IF fresh THEN inter ELSE Nil]

ShaderReloadInBounds(key) ==
    key \in DOMAIN shaderPrograms =>
        /\ shaderPrograms[key].id.generation < MaxGen
        /\ shaderPrograms[key].intermediateProgram = Nil =>
               progNames < MaxObjects

\* ShaderStore.Load(key, def).  The store lock is taken on entry; for a key
\* that is already loaded it is taken a second time, which never returns
\* (sync.RWMutex is not reentrant): the call hangs holding the lock.
ShaderStore_Load(key, def) ==
    /\ scenario \in ShaderStoreRuns
    /\ shaderM = "free"
    /\ IF key \in DOMAIN shaderPrograms
       THEN /\ shaderM' = "locked"
            /\ ret' = [Ret("ShaderLoad", key, FALSE) EXCEPT
                          !.returned = FALSE, !.wasLoaded = TRUE,
                          !.before = ShaderStore_resolve(key)]
            /\ UNCHANGED <<shaderPrograms, sProgIDSeq, progNames, progObj,
                           shaderWatch>>
       ELSE LET id == newShaderProgID
                program == newShaderProgram
            IN
            /\ progNames < MaxObjects
            /\ progNames' = progNames + 1
            /\ sProgIDSeq' = sProgIDSeq + 1
            /\ shaderM' = shaderM
            /\ IF shaderLoadFails(def)
               THEN /\ progObj' = programDestroy(MapPut(progObj, program, 0),
                                                 program)
                    /\ ret' = [Ret("ShaderLoad", key, TRUE) EXCEPT
                                  !.created = program,
                                  !.buildFailed = TRUE,
                                  !.destroyed = <<program>>]
                    /\ UNCHANGED <<shaderPrograms, shaderWatch>>
               ELSE /\ progObj' = MapPut(progObj, program,
                                         shaderFiles[def.VertexShaderPath])
                    /\ shaderPrograms' = MapPut(shaderPrograms, key,
                                      [id |-> id, program |-> program,
                                       intermediateProgram |-> Nil,
                                       definition |-> def])
                    /\ shaderWatch' =
                          WatcherAdd(WatcherAdd(shaderWatch,
                                                def.VertexShaderPath, key),
                                     def.FragmentShaderPath, key)
                    /\ ret' = [Ret("ShaderLoad", key, FALSE) EXCEPT
                                  !.created = program]
    /\ ShaderSeenNext
    /\ UNCHANGED <<scenario, shaderFiles>>
    /\ UNCHANGED <<texVars, renderVars, hotVars>>

\* ShaderStore.Reload(key)
ShaderStore_Reload(key) ==
    LET r == reload(key) IN
    /\ scenario \in ShaderStoreRuns
    /\ shaderM = "free"
    /\ ShaderReloadInBounds(key)
    /\ shaderPrograms' = r.shaderPrograms
    /\ progObj' = r.progObj
    /\ progNames' = r.progNames
    /\ ret' = [Ret("ShaderReload", key, r.err) EXCEPT
                  !.wasLoaded = key \in DOMAIN shaderPrograms,
                  !.buildFailed =
                      /\ key \in DOMAIN shaderPrograms
                      /\ shaderLoadFails(shaderPrograms[key].definition),
                  !.before = ShaderStore_resolve(key),
                  !.created = r.created]
    /\ ShaderSeenNext
    /\ UNCHANGED <<scenario, shaderFiles, sProgIDSeq, shaderWatch, shaderM>>
    /\ UNCHANGED <<texVars, renderVars, hotVars>>

\* ShaderStore.unload on a store state st (see TextureStore_unload)
ShaderStore_unload(st, key) ==
    IF key \notin DOMAIN st.shaderPrograms
    THEN st
    ELSE LET lp == st.shaderPrograms[key]
             rm1 == WatcherRemove(st.shaderWatch,
                                  lp.definition.VertexShaderPath, key)
             rm2 == WatcherRemove(rm1.targets,
                                  lp.definition.FragmentShaderPath, key)
             o1 == programDestroy(st.progObj, lp.program)
             o2 == IF lp.intermediateProgram # Nil
                   THEN programDestroy(o1, lp.intermediateProgram)
                   ELSE o1
         IN  [shaderPrograms |-> MapDel(st.shaderPrograms, key),
              progObj |-> o2,
              shaderWatch |-> rm2.targets,
              destroyed |-> st.destroyed \o <<lp.program>> \o
                            (IF lp.intermediateProgram # Nil
                             THEN <<lp.intermediateProgram>> ELSE <<>>),
              internal |-> st.internal \/ rm1.err \/ rm2.err]

ShaderStoreState ==
    [shaderPrograms |-> shaderPrograms, progObj |-> progObj,
     shaderWatch |-> shaderWatch, destroyed |-> <<>>, internal |-> FALSE]

\* ShaderStore.Unload(key)
ShaderStore_Unload(key) ==
    LET st == ShaderStore_unload(ShaderStoreState, key) IN
    /\ scenario \in ShaderStoreRuns
    /\ shaderM = "free"
    /\ shaderPrograms' = st.shaderPrograms
    /\ progObj' = st.progObj
    /\ shaderWatch' = st.shaderWatch
    /\ ret' = [Ret("ShaderUnload", key, FALSE) EXCEPT
                  !.wasLoaded = key \in DOMAIN shaderPrograms,
                  !.before = ShaderStore_resolve(key),
                  !.destroyed = st.destroyed,
                  !.owned = ShaderOwned({key}),
                  !.reported = st.internal]
    /\ ShaderSeenNext
    /\ UNCHANGED <<scenario, shaderFiles, sProgIDSeq, progNames, shaderM>>
    /\ UNCHANGED <<texVars, renderVars, hotVars>>

RECURSIVE ShaderUnloadEach(_, _)
ShaderUnloadEach(st, keys) ==
    IF keys = {} THEN st
    ELSE LET k == CHOOSE x \in keys : TRUE
         IN  ShaderUnloadEach(ShaderStore_unload(st, k), keys \ {k})

\* ShaderStore.UnloadAll
ShaderStore_UnloadAll ==
    LET st == ShaderUnloadEach(ShaderStoreState, DOMAIN shaderPrograms) IN
    /\ scenario \in ShaderStoreRuns
    /\ shaderM = "free"
    /\ shaderPrograms # <<>>
    /\ shaderPrograms' = st.shaderPrograms
    /\ progObj' = st.progObj
    /\ shaderWatch' = st.shaderWatch
    /\ ret' = [Ret("ShaderUnloadAll", NoKey, FALSE) EXCEPT
                  !.owned = ShaderOwned(DOMAIN shaderPrograms),
                  !.destroyed = st.destroyed, !.reported = st.internal]
    /\ ShaderSeenNext
    /\ UNCHANGED <<scenario, shaderFiles, sProgIDSeq, progNames, shaderM>>
    /\ UNCHANGED <<texVars, renderVars, hotVars>>

\* the environment rewrites, creates or deletes a shader source file
SetShaderFile(path, content) ==
    /\ scenario = "shader"
    /\ shaderFiles[path] # content
    /\ shaderFiles' = [shaderFiles EXCEPT ![path] = content]
    /\ ret' = Ret("SetShaderFile", NoKey, FALSE)
    /\ UNCHANGED <<scenario, shaderPrograms, sProgIDSeq, progNames, progObj,
                   shaderWatch, shaderM, shaderSeen>>
    /\ UNCHANGED <<texVars, renderVars, hotVars>>

(* --------------------------- samplerManager --------------------------- *)
\* newSamplerManager: activeBindings for the n samplers the driver reports
newSamplerManager(n) == [i \in 0..(n - 1) |-> FALSE]

\* samplerManager.maxSampler, the length of activeBindings
maxSampler == Cardinality(DOMAIN activeBindings)

Samplers == 0..(maxSampler - 1)

\* mutant: sampler 0 is handed out when none is free
unusedSampler_reuseFirst ==
    IF \E i \in Samplers : ~activeBindings[i]
    THEN CHOOSE i \in Samplers :
            /\ ~activeBindings[i]
            /\ \A j \in Samplers : ~activeBindings[j] => i <= j
    ELSE 0

\* samplerManager.unusedSampler: the first inactive sampler, -1 if none
unusedSampler ==
    IF \E i \in Samplers : ~activeBindings[i]
    THEN CHOOSE i \in Samplers :
            /\ ~activeBindings[i]
            /\ \A j \in Samplers : ~activeBindings[j] => i <= j
    ELSE -1

\* mutant: the sampler is not marked active
bindNew_notActive(textureKey, id, sampler) ==
    [activeBindings |-> activeBindings,
     texBinding |-> MapPut(texBinding, textureKey,
                           [texture |-> id, sampler |-> sampler])]

\* the slot table after bind records a new binding
bindNew(textureKey, id, sampler) ==
    [activeBindings |-> [activeBindings EXCEPT ![sampler] = TRUE],
     texBinding |-> MapPut(texBinding, textureKey,
                           [texture |-> id, sampler |-> sampler])]

\* samplerManager.bind(samplerLoc, textureKey) as a function of the current
\* state: the slot table after the call, the value written to samplerLoc
\* (uniform) and whether an assertion failed (reported)
bind(textureKey) ==
    LET r == TextureStore_resolve(textureKey)
        same == [activeBindings |-> activeBindings, texBinding |-> texBinding]
    IN
    IF r.obj = Nil
    THEN [slots |-> same, uniform |-> 0, reported |-> TRUE]
    ELSE IF textureKey \notin DOMAIN texBinding
    THEN LET sampler == unusedSampler IN
         IF sampler < 0
         THEN [slots |-> same, uniform |-> 0, reported |-> TRUE]
         ELSE \* binding is still the zero value of the failed map lookup,
              \* so samplerLoc receives 0
              [slots |-> bindNew(textureKey, r.id, sampler), uniform |-> 0,
               reported |-> FALSE]
    ELSE \* on a changed id the texture is bound to the sampler again; the
         \* new id is written to the local copy of the binding only
         [slots |-> same, uniform |-> texBinding[textureKey].sampler,
          reported |-> FALSE]

\* a call of samplerManager.bind
samplerManager_bind(textureKey) ==
    LET b == bind(textureKey) IN
    /\ scenario = "sampler"
    /\ activeBindings' = b.slots.activeBindings
    /\ texBinding' = b.slots.texBinding
    /\ ret' = [Ret("bind", textureKey, FALSE) EXCEPT
                  !.wasLoaded = textureKey \in DOMAIN textures,
                  !.full = /\ textureKey \in DOMAIN textures
                           /\ textureKey \notin DOMAIN texBinding
                           /\ \A i \in Samplers : activeBindings[i],
                  !.table = texBinding,
                  !.uniform = b.uniform,
                  !.reported = b.reported]
    /\ UNCHANGED <<scenario, texFiles, textures, texIDSeq, texNames, texObj,
                   texWatch, texSeen>>
    /\ UNCHANGED <<shaderVars, renderVars, hotVars>>

\* samplerManager.unbind(textureKey)
samplerManager_unbind(textureKey) ==
    /\ scenario = "sampler"
    /\ IF textureKey \notin DOMAIN texBinding
       THEN /\ ret' = [Ret("unbind", textureKey, FALSE) EXCEPT !.reported = TRUE]
            /\ UNCHANGED <<activeBindings, texBinding>>
       ELSE /\ texBinding' = MapDel(texBinding, textureKey)
            /\ activeBindings' =
                   [activeBindings EXCEPT ![texBinding[textureKey].sampler] = FALSE]
            /\ ret' = Ret("unbind", textureKey, FALSE)
    /\ UNCHANGED <<scenario, texFiles, textures, texIDSeq, texNames, texObj, texWatch,
                   texSeen>>
    /\ UNCHANGED <<shaderVars, renderVars, hotVars>>

(* ------------------------ Material and Mesh --------------------------- *)
\* the active uniforms, besides modelTransform and vpMatrix, of a program
\* built from the given vertex source; "glow" is declared by source 1 only
ActiveUniforms(source) ==
    IF source = 1 THEN {"color", "glow", "tex"} ELSE {"color", "tex"}

\* shaderProgram.uniformLocations as filled by fetchUniforms
uniformLocations(sProg) == ActiveUniforms(progObj[sProg])

\* shaderProgram.modelTransformLocation.Value, -1 when not declared
modelTransformLocation(sProg) == IF progObj[sProg] = 1 THEN 0 ELSE -1

\* shaderProgram.vpMatrixLocation.Value, -1 when not declared
vpMatrixLocation(sProg) == IF progObj[sProg] = 1 THEN 1 ELSE -1

\* NewMaterial(sProgKey) followed by the setters the application called:
\* mat1 has one float uniform and one texture, mat2 two float uniforms
NewMaterial(name, sProgKey) ==
    [sProgKey |-> sProgKey,
     textures |-> IF name = "mat1" THEN [n \in {"tex"} |-> "tex:a"] ELSE <<>>,
     uniformf |-> IF name = "mat1" THEN {"color"} ELSE {"color", "glow"}]

\* the components of vertex attribute vaName in a program built from the
\* given vertex source (vaTypePropertyMapping of the attribute's type):
\* position is a vec2 in both sources, and an attribute the program does not
\* declare has type 0 and no components
attributeComponents(source, vaName) == IF vaName = "position" THEN 2 ELSE 0

\* NewMesh(mat): no index buffer, no geometry
NewMesh(mat) ==
    [material |-> mat, ibo |-> FALSE, primitiveType |-> "",
     vboSize |-> 0, indexCount |-> 0, primitiveCount |-> 0,
     vertexAttributes |-> <<>>, vertexSize |-> 0, vertexCount |-> 0]

\* Mesh.determinePrimitiveCount (a failed assertion only logs)
determinePrimitiveCount(indexCount, primitiveType) ==
    CASE primitiveType = "POINTS" -> indexCount
      [] primitiveType = "LINE_STRIP" -> indexCount - 1
      [] primitiveType = "LINE_LOOP" -> indexCount
      [] primitiveType = "LINES" -> indexCount \div 2
      [] primitiveType = "TRIANGLE_STRIP" -> indexCount - 2
      [] primitiveType = "TRIANGLE_FAN" -> indexCount - 2
      [] primitiveType = "TRIANGLES" -> indexCount \div 3
      [] OTHER -> 0

\* Mesh.prepareIBO(required): whether the mesh has an index buffer afterwards
prepareIBO(required) == required

\* the components of all attributes of the list
RECURSIVE SumComponents(_, _)
SumComponents(source, vertexAttributes) ==
    IF vertexAttributes = <<>> THEN 0
    ELSE attributeComponents(source, Head(vertexAttributes))
           + SumComponents(source, Tail(vertexAttributes))

\* Mesh.calcVertexData on mesh m: nothing without the shader of the
\* material; else the vertex size follows from the attribute types of the
\* program and the vertex count from the size of the buffer.  The id of the
\* program the sizes were calculated for (m.vtxShaderProgID) is not kept: it
\* is reset with every new geometry and only saves calculating the same
\* sizes again for the same program and geometry.  (The meshes here name at
\* least one attribute the program declares whenever they hold data.)
calcVertexData(m) ==
    LET res == ShaderStore_resolve(materials[m.material].sProgKey)
        vertexSize == SumComponents(progObj[res.obj], m.vertexAttributes) * 4
    IN
    IF res.obj = Nil THEN m
    ELSE [m EXCEPT !.vertexSize = vertexSize,
                   !.vertexCount = IF m.vboSize = 0 THEN 0
                                   ELSE m.vboSize \div vertexSize]

\* Mesh.SetVertexData(vertices, indices, primitiveType, vertexAttributes,
\* bufferLayout) on mesh m; the slices are given by their lengths, NilSlice
\* for indices == nil
SetVertexData(m, vertices, indices, primitiveType, vertexAttributes) ==
    LET indexCount == IF indices = NilSlice THEN vertices ELSE indices IN
    calcVertexData(
        [m EXCEPT !.ibo = prepareIBO(indices # NilSlice),
                  !.indexCount = indexCount,
                  !.primitiveType = primitiveType,
                  !.vboSize = vertices * 4,
                  !.vertexAttributes = vertexAttributes,
                  !.primitiveCount =
                      determinePrimitiveCount(indexCount, primitiveType)])

\* no buffer is bound (buffer 0)
NoMesh == "none"

\* the mesh whose SetVertexData bound its ibo to ELEMENT_ARRAY_BUFFER last,
\* the application building mesh1, mesh2, mesh3 and mesh4 in this order
LastIndexed == "mesh3"

\* the meshes the application built before its first frame, each from 6
\* floats (3 vertices with a vec2 position): mesh1 and mesh2 share mat1 (one
\* with 3 indices, one drawn from the vertex array), mesh3 uses mat2, mesh4
\* was created and never given geometry
BuildMesh(name) ==
    CASE name = "mesh1" ->
             SetVertexData(NewMesh("mat1"), 6, 3, "TRIANGLES", <<"position">>)
      [] name = "mesh2" ->
             SetVertexData(NewMesh("mat1"), 6, NilSlice, "TRIANGLES",
                           <<"position">>)
      [] name = "mesh3" ->
             SetVertexData(NewMesh("mat2"), 6, 3, "TRIANGLES", <<"position">>)
      [] OTHER -> NewMesh("mat1")

(* ----------------------------- RenderState ---------------------------- *)
\* newRenderState: no material applied, the zero sProgID, counters at 0
newRenderState ==
    [material |-> NoMaterial, sProgID |-> ZeroID,
     totalDrawCalls |-> 0, totalPrimitives |-> 0]

\* the instrumented gl API and Material.apply at the start of a frame
NoCalls ==
    [UseProgram |-> 0, vpMatrix |-> 0, modelTransform |-> 0,
     apply |-> 0, Uniform |-> 0, bind |-> 0]

\* Material.apply(shader, texTargets): every texture the program has a
\* uniform for goes through samplerManager.bind, every float uniform the
\* program has is uploaded; the others are skipped after a logged assertion.
\* The materials here carry at most one texture.
Material_apply(g, m, shader) ==
    LET texNamesBound == DOMAIN materials[m].textures
                            \cap uniformLocations(shader)
        uploaded == materials[m].uniformf \cap uniformLocations(shader)
    IN
    [glCalls |-> [g EXCEPT !.apply = @ + 1,
                           !.bind = @ + Cardinality(texNamesBound),
                           !.Uniform = @ + Cardinality(uploaded)],
     slots |-> IF texNamesBound = {}
               THEN [activeBindings |-> activeBindings,
                     texBinding |-> texBinding]
               ELSE bind(materials[m].textures[
                            CHOOSE n \in texNamesBound : TRUE]).slots]

\* mutant: the id of the program in use is not recorded
applyShader_forgetID(r, g, sProgKey) ==
    LET res == ShaderStore_resolve(sProgKey) IN
    IF res.obj = Nil
    THEN [rs |-> r, glCalls |-> g, sProg |-> Nil, id |-> ZeroID]
    ELSE IF r.sProgID # res.id
    THEN [rs |-> r,
          glCalls |-> [g EXCEPT !.UseProgram = @ + 1,
                                !.vpMatrix =
                                   IF vpMatrixLocation(res.obj) >= 0
                                   THEN @ + 1 ELSE @],
          sProg |-> res.obj, id |-> res.id]
    ELSE [rs |-> r, glCalls |-> g, sProg |-> res.obj, id |-> res.id]

\* mutant: the program is activated on every call
applyShader_alwaysUse(r, g, sProgKey) ==
    LET res == ShaderStore_resolve(sProgKey) IN
    IF res.obj = Nil
    THEN [rs |-> r, glCalls |-> g, sProg |-> Nil, id |-> ZeroID]
    ELSE [rs |-> [r EXCEPT !.sProgID = res.id],
          glCalls |-> [g EXCEPT !.UseProgram = @ + 1,
                                !.vpMatrix =
                                   IF vpMatrixLocation(res.obj) >= 0
                                   THEN @ + 1 ELSE @],
          sProg |-> res.obj, id |-> res.id]

\* RenderState.applyShader(sProgKey) on state r with calls g so far
applyShader(r, g, sProgKey) ==
    LET res == ShaderStore_resolve(sProgKey) IN
    IF res.obj = Nil
    THEN [rs |-> r, glCalls |-> g, sProg |-> Nil, id |-> ZeroID]
    ELSE IF r.sProgID # res.id
    THEN [rs |-> [r EXCEPT !.sProgID = res.id],
          glCalls |-> [g EXCEPT !.UseProgram = @ + 1,
                                !.vpMatrix =
                                   IF vpMatrixLocation(res.obj) >= 0
                                   THEN @ + 1 ELSE @],
          sProg |-> res.obj, id |-> res.id]
    ELSE [rs |-> r, glCalls |-> g, sProg |-> res.obj, id |-> res.id]

\* mutant: the applied material is not recorded
applyMaterial_forgetMaterial(r, g, material) ==
    LET s == applyShader(r, g, materials[material].sProgKey)
        same == [activeBindings |-> activeBindings, texBinding |-> texBinding]
    IN
    IF s.sProg = Nil
    THEN [rs |-> r, glCalls |-> g, slots |-> same, sProg |-> Nil,
          id |-> ZeroID]
    ELSE LET a == IF s.rs.material # material
                  THEN Material_apply(s.glCalls, material, s.sProg)
                  ELSE [glCalls |-> s.glCalls, slots |-> same]
         IN
         [rs |-> s.rs,
          glCalls |-> [a.glCalls EXCEPT !.modelTransform =
                          IF modelTransformLocation(s.sProg) >= 0
                          THEN @ + 1 ELSE @],
          slots |-> a.slots, sProg |-> s.sProg, id |-> s.id]

\* RenderState.applyMaterial(material) on state r with calls g so far
applyMaterial(r, g, material) ==
    LET s == applyShader(r, g, materials[material].sProgKey)
        same == [activeBindings |-> activeBindings, texBinding |-> texBinding]
    IN
    IF s.sProg = Nil
    THEN [rs |-> r, glCalls |-> g, slots |-> same, sProg |-> Nil,
          id |-> ZeroID]
    ELSE LET a == IF s.rs.material # material
                  THEN Material_apply(s.glCalls, material, s.sProg)
                  ELSE [glCalls |-> s.glCalls, slots |-> same]
         IN
         [rs |-> [s.rs EXCEPT !.material = material],
          glCalls |-> [a.glCalls EXCEPT !.modelTransform =
                          IF modelTransformLocation(s.sProg) >= 0
                          THEN @ + 1 ELSE @],
          slots |-> a.slots, sProg |-> s.sProg, id |-> s.id]

\* Mesh.Draw(renderState).  resolve takes the read lock of the store.  The
\* vertex attribute pointers (configureVertexAttributes) are not part of the
\* state kept here.
Mesh_Draw(mesh) ==
    LET m == meshes[mesh]
        a == applyMaterial(rs, glCalls, m.material)
    IN
    /\ scenario \in RenderRuns
    /\ shaderM = "free"
    /\ IF m.indexCount = 0
       THEN /\ ret' = Void(FALSE)
            /\ UNCHANGED <<rs, glCalls, applied, activeBindings, texBinding,
                           meshes>>
       ELSE IF a.sProg = Nil
       THEN /\ ret' = Void(TRUE)
            /\ UNCHANGED <<rs, glCalls, applied, activeBindings, texBinding,
                           meshes>>
       ELSE /\ Len(applied) < MaxDraws
            /\ meshes' = [meshes EXCEPT ![mesh] = calcVertexData(m)]
            /\ rs' = [a.rs EXCEPT
                         !.totalDrawCalls = @ + 1,
                         !.totalPrimitives = @ + m.primitiveCount]
            /\ glCalls' = a.glCalls
            /\ activeBindings' = a.slots.activeBindings
            /\ texBinding' = a.slots.texBinding
            /\ applied' = Append(applied,
                                 [mesh |-> mesh, material |-> m.material,
                                  id |-> a.id, source |-> progObj[a.sProg]])
            /\ ret' = Void(FALSE)
    /\ UNCHANGED <<scenario, materials, elementArrayBuffer, geometry>>
    /\ UNCHANGED <<texFiles, textures, texIDSeq, texNames, texObj, texWatch,
                   texSeen>>
    /\ UNCHANGED <<shaderVars, hotVars>>

\* Engine.renderFrame: every frame starts with a new RenderState
Engine_renderFrame ==
    /\ scenario \in RenderRuns
    /\ rs' = newRenderState
    /\ glCalls' = NoCalls
    /\ applied' = <<>>
    /\ ret' = Void(FALSE)
    /\ UNCHANGED <<scenario, materials, meshes, elementArrayBuffer, geometry>>
    /\ UNCHANGED <<texVars, shaderVars, hotVars>>

\* the geometry the application gives a mesh while it runs, as SetVertexData
\* gets it: 3 vertices with 3 indices, the same without indices, or nothing
\* (ClearVertexData)
MeshData ==
    {[vertices |-> 6, indices |-> 3, vertexAttributes |-> <<"position">>],
     [vertices |-> 6, indices |-> NilSlice,
      vertexAttributes |-> <<"position">>],
     [vertices |-> 0, indices |-> NilSlice, vertexAttributes |-> <<>>]}

\* the meshes whose geometry the application changes while it runs
ChangingMeshes == {"mesh1", "mesh4"}

\* Mesh.SetVertexData / ClearVertexData of a mesh between two draws.  With
\* indices the mesh's ibo is bound to ELEMENT_ARRAY_BUFFER for the upload and
\* stays bound; without, prepareIBO deletes the ibo, which unbinds it.
Mesh_SetVertexData(mesh, d) ==
    /\ scenario = "scene"
    /\ mesh \in ChangingMeshes
    /\ meshes' = [meshes EXCEPT ![mesh] =
                      SetVertexData(@, d.vertices, d.indices, "TRIANGLES",
                                    d.vertexAttributes)]
    /\ elementArrayBuffer' =
          IF d.indices # NilSlice THEN mesh
          ELSE IF elementArrayBuffer = mesh THEN NoMesh
          ELSE elementArrayBuffer
    /\ ret' = Void(ShaderStore_resolve(
                       materials[meshes[mesh].material].sProgKey).obj = Nil)
    /\ UNCHANGED <<scenario, materials, rs, glCalls, applied, geometry>>
    /\ UNCHANGED <<texVars, shaderVars, hotVars>>

\* Mesh.SetIndexSubData(indexOffset, indices) with an offset in range: the
\* vertex sizes are brought up to date and the mesh's ibo is bound to
\* ELEMENT_ARRAY_BUFFER for the upload and stays bound.  A mesh without
\* index buffer logs an assertion and binds buffer 0.
Mesh_SetIndexSubData(mesh) ==
    /\ scenario = "scene"
    /\ meshes[mesh].indexCount > 0
    /\ meshes' = [meshes EXCEPT ![mesh] = calcVertexData(@)]
    /\ elementArrayBuffer' = IF meshes[mesh].ibo THEN mesh ELSE NoMesh
    /\ ret' = Void(\/ ~meshes[mesh].ibo
                   \/ ShaderStore_resolve(
                         materials[meshes[mesh].material].sProgKey).obj = Nil)
    /\ UNCHANGED <<scenario, materials, rs, glCalls, applied, geometry>>
    /\ UNCHANGED <<texVars, shaderVars, hotVars>>

(* ------------------------------ Geometry ------------------------------ *)
\* N / D scaled by a power of two until 2^23 <= N / D < 2^24 (the 24 bit
\* significand of a float32); e is the exponent taken out
RECURSIVE Normalize(_, _, _)
Normalize(N, D, e) ==
    IF N < 2^23 * D THEN Normalize(2 * N, D, e - 1)
    ELSE IF N >= 2^24 * D THEN Normalize(N, 2 * D, e + 1)
    ELSE [N |-> N, D |-> D, e |-> e]

\* the float32 nearest to a / b (a >= 0, b > 0), ties to the even
\* significand, as [m, e] for m * 2^e
RoundF32(a, b) ==
    IF a = 0 THEN [m |-> 0, e |-> 0]
    ELSE LET n == Normalize(a, b, 0)
             q == n.N \div n.D
             r == n.N % n.D
         IN [m |-> IF 2 * r > n.D \/ (2 * r = n.D /\ q % 2 = 1)
                   THEN q + 1 ELSE q,
             e |-> n.e]

\* float32(n) for an int n >= 0, as the integer it denotes
F32Int(n) ==
    IF n < 2^24 THEN n
    ELSE LET f == RoundF32(n, 1) IN f.m * 2^f.e

\* float32(a) / float32(b) == float32(q) for ints a, q >= 0 and b > 0
F32QuotientEquals(a, b, q) ==
    LET f == RoundF32(F32Int(a), F32Int(b)) IN
    IF f.e >= 0 THEN f.m * 2^f.e = F32Int(q)
    ELSE f.m = F32Int(q) * 2^(-f.e)

PrimitiveTypes ==
    {"POINTS", "LINE_STRIP", "LINE_LOOP", "LINES", "TRIANGLE_STRIP",
     "TRIANGLE_FAN", "TRIANGLES"}

\* the messages AssertValidGeometry("", vertexCount, vertices, indices,
\* primitiveType, vertexAttributes) logs; vertices and vertexAttributes are
\* given by their lengths, indices is the sequence itself.  With the empty
\* key, as Geometry.Set and Geometry.Append pass it, the function returns
\* before the checks against a shader program.
AssertValidGeometry(vertexCount, vertices, indices, primitiveType, vertexAttributes) ==
    LET indexCount == Len(indices)
        vertexSize == IF vertexCount > 0 THEN vertices \div vertexCount ELSE 0
        idx == {indices[i] : i \in 1..indexCount}
        maxIdx == IF idx = {} THEN -1
                  ELSE CHOOSE x \in idx : \A y \in idx : y <= x
        minIdx == IF \E x \in idx : x < vertexCount
                  THEN CHOOSE x \in idx : \A y \in idx : x <= y
                  ELSE vertexCount
    IN
    {m \in {"VertexCount and vertex data does not match"} :
        IF vertexCount > 0
        THEN ~F32QuotientEquals(vertices, vertexCount, vertexSize)
        ELSE vertices # 0}
    \cup {m \in {"There are no vertex attributes"} : vertexAttributes = 0}
    \cup {m \in {"Vertex size is too small to fit all vertex attributes"} :
            vertexSize < vertexAttributes}
    \cup {m \in {"Too many vertices to be indexed by uint16"} :
            indexCount > 0 /\ vertexCount > 65535}
    \cup {m \in {"Index array references out-of-bounds vertices"} :
            indexCount > 0 /\ \E x \in idx : x >= vertexCount}
    \cup {m \in {"Obsolete vertices: last"} :
            indexCount > 0 /\ vertexCount - 1 - maxIdx > 0}
    \cup {m \in {"Obsolete vertices: first"} :
            indexCount > 0 /\ minIdx > 0}
    \cup {m \in {"Obsolete vertices: not all vertices are referenced"} :
            indexCount > 0 /\ indexCount < vertexCount}
    \cup {m \in {"Index count is incompatible with primitive type"} :
            \/ primitiveType = "LINE_STRIP" /\ indexCount < 1
            \/ primitiveType = "LINES" /\ indexCount % 2 # 0
            \/ primitiveType = "TRIANGLE_STRIP" /\ indexCount < 2
            \/ primitiveType = "TRIANGLE_FAN" /\ indexCount < 2
            \/ primitiveType = "TRIANGLES" /\ indexCount % 3 # 0}
    \cup {m \in {"Unknown primitive type"} :
            primitiveType \notin PrimitiveTypes}

\* the index slices of at most n entries over the vertices 0..MaxVertexCount
RECURSIVE IndexSlices(_)
IndexSlices(n) ==
    IF n = 0 THEN {<<>>}
    ELSE LET shorter == IndexSlices(n - 1) IN
         shorter \cup {Append(s, i) : s \in {t \in shorter : Len(t) = n - 1},
                                      i \in 0..MaxVertexCount}

\* the arguments AssertValidGeometry is called with; a vertex slice of
\* 2^24 + 1 floats is the shortest whose length float32 cannot represent
GeometryInputs ==
    [vertexCount : 0..MaxVertexCount,
     vertices : (0..MaxFloats) \cup {2^24 + 1},
     indices : IndexSlices(MaxIndices),
     primitiveType : PrimitiveTypes \cup {"QUADS"},
     vertexAttributes : 0..MaxAttributes]

\* a call of AssertValidGeometry with the arguments chosen for this run
Geometry_AssertValid ==
    /\ scenario = "geometry"
    /\ ret.op = "geometry"
    /\ LET g == ret.geometry
           reports == AssertValidGeometry(g.vertexCount, g.vertices,
                                          g.indices, g.primitiveType,
                                          g.vertexAttributes)
       IN ret' = [Ret("AssertValidGeometry", NoKey, FALSE) EXCEPT
                     !.geometry = g, !.reports = reports,
                     !.reported = reports # {}]
    /\ UNCHANGED <<scenario, texVars, shaderVars, renderVars, hotVars>>

\* 0xFFFF, the largest value of a uint16 index
MaxUint16 == 65535

\* uint16(n) of an int n >= 0, and the sum of two uint16
Uint16(n) == n % (MaxUint16 + 1)

\* the BufferLayout Geometry.Append supports, and another one
InterleavedBuffer == "InterleavedBuffer"
OtherLayout == "other"

\* the zero value of Geometry; its primitive type and layout are never read,
\* Append replaces the whole of a geometry without vertices
ZeroGeometry ==
    [vertexCount |-> 0, vertices |-> 0, indices |-> <<>>,
     primitiveType |-> "", vertexAttributes |-> <<>>, bufferLayout |-> ""]

\* equalStringSlice
equalStringSlice(a, b) ==
    /\ Len(a) = Len(b)
    /\ \A i \in 1..Len(a) : a[i] = b[i]

\* Geometry.Set with the arguments d: the geometry it leaves and the messages
\* it logs.  The vertices are given by their number (of floats).
Geometry_Set(d) ==
    [geometry |-> d,
     reports |-> AssertValidGeometry(d.vertexCount, d.vertices, d.indices,
                                     d.primitiveType,
                                     Len(d.vertexAttributes))]

\* Geometry.Append with the arguments d on the geometry g.  The assertions
\* log and the function goes on; the appended indices are offset in uint16.
Geometry_Append(g, d) ==
    IF g.vertexCount = 0 THEN Geometry_Set(d)
    ELSE
    [geometry |->
        [g EXCEPT
            !.vertices = @ + d.vertices,
            !.indices = @ \o [i \in 1..Len(d.indices) |->
                                 Uint16(d.indices[i] + Uint16(g.vertexCount))],
            !.vertexCount = @ + d.vertexCount],
     reports |->
        AssertValidGeometry(d.vertexCount, d.vertices, d.indices,
                            d.primitiveType, Len(d.vertexAttributes))
        \cup {m \in {"Incompatible primitive type"} :
                g.primitiveType # d.primitiveType}
        \cup {m \in {"Incompatible vertex attributes"} :
                ~equalStringSlice(g.vertexAttributes, d.vertexAttributes)}
        \cup {m \in {"Resulting geometry is not indexable by uint16"} :
                g.vertexCount + d.vertexCount > MaxUint16}
        \cup {m \in {"Incompatible buffer layouts"} :
                g.bufferLayout # d.bufferLayout}
        \cup {m \in {"Unsupported buffer layout"} :
                d.bufferLayout # InterleavedBuffer}
        \cup {m \in {"Unsupported primitive type"} :
                d.primitiveType \notin {"POINTS", "LINES", "TRIANGLES"}}]

\* the index slices of a part, over its first MaxPartVertices vertices
PartIndices ==
    {s \in IndexSlices(MaxIndices) :
        \A i \in 1..Len(s) : s[i] < MaxPartVertices}

\* the geometry an application builds and appends: parts of up to
\* MaxPartVertices vertices of 2 or 3 floats, with or without indices, and
\* a part in another buffer layout
GeometryParts ==
    {[vertexCount |-> n, vertices |-> n * size, indices |-> s,
      primitiveType |-> t, vertexAttributes |-> a,
      bufferLayout |-> InterleavedBuffer] :
        n \in 0..MaxPartVertices, size \in {2, 3}, s \in PartIndices,
        t \in {"POINTS", "LINES", "TRIANGLES", "TRIANGLE_STRIP"},
        a \in {<<"position">>, <<"position", "color">>}}
    \cup {[vertexCount |-> 1, vertices |-> 2, indices |-> <<>>,
           primitiveType |-> "POINTS", vertexAttributes |-> <<"position">>,
           bufferLayout |-> OtherLayout]}

\* NewGeometry(d...): a Geometry object filled by Set
NewGeometry(d) ==
    /\ scenario = "append"
    /\ ret.op = "init"
    /\ LET r == Geometry_Set(d) IN
       /\ geometry' = r.geometry
       /\ ret' = [Ret("NewGeometry", NoKey, FALSE) EXCEPT
                     !.geometry = d, !.before = geometry,
                     !.reports = r.reports, !.reported = r.reports # {}]
    /\ UNCHANGED <<scenario, materials, meshes, rs, glCalls, applied,
                   elementArrayBuffer>>
    /\ UNCHANGED <<texVars, shaderVars, hotVars>>

\* Geometry.AppendGeometry(other) / Geometry.Append(d...) on the geometry
\* the application built
Geometry_AppendGeometry(d) ==
    /\ scenario = "append"
    /\ ret.op = "NewGeometry"
    /\ LET r == Geometry_Append(geometry, d) IN
       /\ geometry' = r.geometry
       /\ ret' = [Ret("Append", NoKey, FALSE) EXCEPT
                     !.geometry = d, !.before = geometry,
                     !.reports = r.reports, !.reported = r.reports # {}]
    /\ UNCHANGED <<scenario, materials, meshes, rs, glCalls, applied,
                   elementArrayBuffer>>
    /\ UNCHANGED <<texVars, shaderVars, hotVars>>

(* ------------------ the stores, goroutine by goroutine ---------------- *)
\* A hot-reloading run (HotSpec) follows the goroutines that work on one
\* store: scenario says whether it is the TextureStore or the ShaderStore.
\* A step of a goroutine runs up to the next point where it can block (a
\* lock, the channel done) or where another goroutine can observe or disturb
\* what it does (a map access without the lock, the build of an object).
\* the ShaderStore, with a program of two source files and with a program
\* whose definition names one file as vertex and as fragment shader
HotShaderRuns == {"hotShader", "hotShaderOneFile"}
HotRuns == {"hotTexture"} \cup HotShaderRuns

\* goroutines that call the store's API
Callers == {"g1", "g2"}
\* the goroutine Watcher.Watch starts, one per caller that gets that far
Loops == {"loop1", "loop2"}
Goroutines == Callers \cup Loops
LoopOf(g) == IF g = "g1" THEN "loop1" ELSE "loop2"

\* nobody holds the lock
NoOne == "none"
\* the nil context.CancelFunc
NilFunc == "nil"

\* the key the goroutines of a run work on
HotKey == IF scenario = "hotTexture" THEN "tex:a" ELSE "sh:a"
\* the definition they load, as the list of files it names: Path for a
\* texture, VertexShaderPath and FragmentShaderPath for a shader program
HotDefinition ==
    CASE scenario = "hotTexture" -> <<"10.png">>
      [] scenario = "hotShaderOneFile" -> <<"a.glsl", "a.glsl">>
      [] OTHER -> <<"a.glsl", "b.glsl">>
HotPaths == {HotDefinition[i] : i \in 1..Len(HotDefinition)}

\* the zero loadedTexture / loadedShader
NoEntry == [id |-> ZeroID, live |-> Nil, intermediate |-> Nil,
            definition |-> <<>>]

\* the locals of a goroutine that is not inside a call
IdleFrame(calls) ==
    [calls |-> calls, op |-> "", key |-> NoKey, keys |-> <<>>, paths |-> <<>>,
     copy |-> NoEntry, obj |-> Nil, before |-> Nil]

\* sync.RWMutex of the Watcher, unlocked
FreeLock == [w |-> NoOne, r |-> {}]

newHotStore == [m |-> NoOne, cancelHotReloading |-> NilFunc, map |-> <<>>,
                idSeq |-> 0]
NewWatcher == [m |-> FreeLock, targets |-> <<>>, watcher |-> "nil",
               registered |-> {}, events |-> <<>>, emitted |-> 0]

HotBuilt ==
    /\ pc = [g \in Goroutines |-> IF g \in Callers THEN "idle" ELSE "none"]
    /\ local = [g \in Goroutines |-> IdleFrame(0)]
    /\ hotStore = newHotStore
    /\ hotWatcher = NewWatcher
    /\ hotObj = [names |-> 0, state |-> <<>>]
    /\ ctxDone = FALSE
    /\ fileOK = TRUE
    /\ fatal = FALSE

\* goroutine g stands at position at of a run that has not crashed
At(g, at) ==
    /\ scenario \in HotRuns
    /\ ~fatal
    /\ pc[g] = at

\* caller g is free to make its next call
CanCall(g) ==
    /\ g \in Callers
    /\ At(g, "idle")
    /\ local[g].calls < MaxCalls

\* g returns r from the call it is in: a caller is free again, the watch
\* loop is back in the callback loop of onFileChanged, at the next key
Returns(g, calls, r) ==
    /\ pc' = [pc EXCEPT ![g] = IF g \in Loops THEN "onChanged" ELSE "idle"]
    /\ local' = [local EXCEPT ![g] =
                    [IdleFrame(calls) EXCEPT
                        !.keys = IF g \in Loops THEN Tail(local[g].keys)
                                 ELSE <<>>,
                        !.paths = IF g \in Loops THEN local[g].paths
                                  ELSE <<>>]]
    /\ ret' = r

\* another goroutine is about to write the store's map
MapWriter(g) ==
    \E h \in Goroutines \ {g} : pc[h] \in {"Load_register", "reload", "Remove"}

\* outside the hot-reloading state
ColdVars == <<scenario, texVars, shaderVars, renderVars>>

\* mutant: the stored cancel function is not looked at
StartHotReloading_noCheck(g) ==
    /\ CanCall(g)
    /\ hotStore.m = NoOne
    /\ hotStore' = [hotStore EXCEPT !.cancelHotReloading = g]
    /\ pc' = [pc EXCEPT ![g] = "Watch"]
    /\ local' = [local EXCEPT ![g].calls = @ + 1,
                              ![g].op = "StartHotReloading"]
    /\ UNCHANGED <<ret, hotWatcher, hotObj, ctxDone, fileOK, fatal>>
    /\ UNCHANGED ColdVars

\* Store.StartHotReloading, up to the call of Watcher.Watch: under the store
\* lock, fail if a cancel function is stored, else derive the context and
\* store its cancel function (named after the caller)
StartHotReloading(g) ==
    /\ CanCall(g)
    /\ hotStore.m = NoOne
    /\ IF hotStore.cancelHotReloading # NilFunc
       THEN /\ Returns(g, local[g].calls + 1,
                       [Ret("StartHotReloading", NoKey, TRUE) EXCEPT
                           !.arg = g])
            /\ UNCHANGED hotStore
       ELSE /\ hotStore' = [hotStore EXCEPT !.cancelHotReloading = g]
            /\ pc' = [pc EXCEPT ![g] = "Watch"]
            /\ local' = [local EXCEPT ![g].calls = @ + 1,
                                      ![g].op = "StartHotReloading"]
            /\ UNCHANGED ret
    /\ UNCHANGED <<hotWatcher, hotObj, ctxDone, fileOK, fatal>>
    /\ UNCHANGED ColdVars

\* Watcher.Watch up to "<-done", under the watcher lock: fail if a
\* filesystem watcher exists or cannot be created (StartHotReloading logs
\* the error and returns nil); else start the loop goroutine and register
\* every path of targets
Watcher_Watch(g) ==
    /\ At(g, "Watch")
    /\ hotWatcher.m = FreeLock
    /\ \/ /\ hotWatcher.watcher # "nil"
          /\ Returns(g, local[g].calls,
                     [Ret("StartHotReloading", NoKey, FALSE) EXCEPT
                         !.arg = g, !.reported = TRUE])
          /\ UNCHANGED hotWatcher
       \/ \* fsnotify.NewWatcher fails
          /\ hotWatcher.watcher = "nil"
          /\ Returns(g, local[g].calls,
                     [Ret("StartHotReloading", NoKey, FALSE) EXCEPT
                         !.arg = g, !.reported = TRUE])
          /\ UNCHANGED hotWatcher
       \/ /\ hotWatcher.watcher = "nil"
          /\ hotWatcher' = [hotWatcher EXCEPT
                               !.watcher = "open",
                               !.registered = DOMAIN hotWatcher.targets]
          /\ pc' = [pc EXCEPT ![g] = "done", ![LoopOf(g)] = "select"]
          /\ UNCHANGED <<local, ret>>
    /\ UNCHANGED <<hotStore, hotObj, ctxDone, fileOK, fatal>>
    /\ UNCHANGED ColdVars

\* Watcher.Watch from "<-done" on: the loop has closed done; the deferred
\* watcher.Close runs (w.watcher keeps pointing to the closed watcher) and
\* StartHotReloading returns nil
Watcher_Watch_return(g) ==
    /\ At(g, "done")
    /\ pc[LoopOf(g)] = "exited"
    /\ hotWatcher' = [hotWatcher EXCEPT !.watcher = "closed",
                                        !.registered = {},
                                        !.events = <<>>]
    /\ Returns(g, local[g].calls,
               [Ret("StartHotReloading", NoKey, FALSE) EXCEPT !.arg = g])
    /\ UNCHANGED <<hotStore, hotObj, ctxDone, fileOK, fatal>>
    /\ UNCHANGED ColdVars

\* the watch loop, case <-ctx.Done(): return, closing done
loop_ctxDone(l) ==
    /\ l \in Loops
    /\ At(l, "select")
    /\ ctxDone
    /\ pc' = [pc EXCEPT ![l] = "exited"]
    /\ UNCHANGED <<local, ret, hotStore, hotWatcher, hotObj, ctxDone, fileOK,
                   fatal>>
    /\ UNCHANGED ColdVars

\* the watch loop, case event := <-watcher.Events with a write, create or
\* rename: call onFileChanged(event.Name)
loop_event(l) ==
    /\ l \in Loops
    /\ At(l, "select")
    /\ hotWatcher.events # <<>>
    /\ hotWatcher' = [hotWatcher EXCEPT !.events = Tail(@)]
    /\ pc' = [pc EXCEPT ![l] = "onFileChanged"]
    /\ local' = [local EXCEPT ![l].paths = <<Head(hotWatcher.events)>>]
    /\ UNCHANGED <<ret, hotStore, hotObj, ctxDone, fileOK, fatal>>
    /\ UNCHANGED ColdVars

\* Watcher.onFileChanged: take the shared watcher lock and read the keys of
\* the path; without a mapping log an error and return
onFileChanged(l) ==
    LET path == Head(local[l].paths) IN
    /\ l \in Loops
    /\ At(l, "onFileChanged")
    /\ hotWatcher.m.w = NoOne
    /\ IF path \notin DOMAIN hotWatcher.targets
       THEN /\ pc' = [pc EXCEPT ![l] = "select"]
            /\ local' = [local EXCEPT ![l] = IdleFrame(0)]
            /\ ret' = Void(TRUE)
            /\ UNCHANGED hotWatcher
       ELSE /\ hotWatcher' = [hotWatcher EXCEPT !.m.r = @ \cup {l}]
            /\ pc' = [pc EXCEPT ![l] = "onChanged"]
            /\ local' = [local EXCEPT ![l] =
                            [IdleFrame(0) EXCEPT
                                !.keys = hotWatcher.targets[path],
                                !.paths = <<path>>]]
            /\ UNCHANGED ret
    /\ UNCHANGED <<hotStore, hotObj, ctxDone, fileOK, fatal>>
    /\ UNCHANGED ColdVars

\* Watcher.onFileChanged after the last key: the deferred RUnlock; the
\* locals of the call are gone
onFileChanged_return(l) ==
    /\ l \in Loops
    /\ At(l, "onChanged")
    /\ local[l].keys = <<>>
    /\ hotWatcher' = [hotWatcher EXCEPT !.m.r = @ \ {l}]
    /\ pc' = [pc EXCEPT ![l] = "select"]
    /\ local' = [local EXCEPT ![l] = IdleFrame(0)]
    /\ UNCHANGED <<ret, hotStore, hotObj, ctxDone, fileOK, fatal>>
    /\ UNCHANGED ColdVars

\* the context passed to StartHotReloading is cancelled
CancelContext ==
    /\ scenario \in HotRuns
    /\ ~fatal
    /\ ~ctxDone
    /\ ctxDone' = TRUE
    /\ UNCHANGED <<pc, local, ret, hotStore, hotWatcher, hotObj, fileOK, fatal>>
    /\ UNCHANGED ColdVars

\* a file of the definition is rewritten, with content that builds or not;
\* fsnotify queues an event if the path is registered
FileChanged(p, ok) ==
    /\ scenario \in HotRuns
    /\ ~fatal
    /\ hotWatcher.emitted < MaxEvents
    /\ fileOK # ok \/ p \in hotWatcher.registered
    /\ fileOK' = ok
    /\ hotWatcher' = [hotWatcher EXCEPT
                         !.emitted = @ + 1,
                         !.events = IF p \in hotWatcher.registered
                                    THEN Append(@, p) ELSE @]
    /\ UNCHANGED <<pc, local, ret, hotStore, hotObj, ctxDone, fatal>>
    /\ UNCHANGED ColdVars

\* gl.CreateTexture / gl.CreateProgram: a fresh object, nothing built
newHotObject == hotObj.names + 1

\* reloadTexture / reload up to the build of the intermediate object, entered
\* with the store lock free: take the lock, copy the map entry, create the
\* intermediate object if there is none and start loading into it.  For a
\* key that is not loaded the error is returned and the lock released.
reload_begin(g, key, op, calls) ==
    /\ hotStore.m = NoOne
    /\ IF key \notin DOMAIN hotStore.map
       THEN /\ Returns(g, calls, Ret(op, key, TRUE))
            /\ UNCHANGED <<hotStore, hotObj>>
       ELSE LET lt == hotStore.map[key]
                fresh == lt.intermediate = Nil
                inter == IF fresh THEN newHotObject ELSE lt.intermediate
            IN  /\ hotStore' = [hotStore EXCEPT !.m = g]
                /\ hotObj' = [names |-> IF fresh THEN hotObj.names + 1
                                        ELSE hotObj.names,
                              state |-> MapPut(hotObj.state, inter, "building")]
                /\ pc' = [pc EXCEPT ![g] = "reload"]
                /\ local' = [local EXCEPT ![g] =
                                [IdleFrame(calls) EXCEPT
                                    !.op = op, !.key = key,
                                    !.keys = local[g].keys,
                                    !.paths = local[g].paths,
                                    !.copy = [lt EXCEPT !.intermediate = inter]]]
                /\ UNCHANGED ret

\* Store.Reload(key), called by a caller or by the callback of the watch loop
\* for the next key of the changed path (calls of the loop's frame counts the
\* invocations of onChanged for the event)
Reload_enter(g) ==
    /\ \/ CanCall(g)
       \/ g \in Loops /\ At(g, "onChanged") /\ local[g].keys # <<>>
    /\ IF g \in Callers
       THEN reload_begin(g, HotKey, "Reload", local[g].calls + 1)
       ELSE reload_begin(g, Head(local[g].keys), "Reload", local[g].calls + 1)
    /\ UNCHANGED <<hotWatcher, ctxDone, fileOK, fatal>>
    /\ UNCHANGED ColdVars

\* reloadTexture / reload from the result of the build on: on an error the
\* map is left alone; else live and intermediate object change places, the
\* generation is incremented and the copy is written back.  The deferred
\* Unlock of the caller runs.
reload_finish(g) ==
    LET lt == local[g].copy
    IN
    /\ At(g, "reload")
    /\ hotStore.m = g
    /\ IF ~fileOK
       THEN /\ hotObj' = [hotObj EXCEPT !.state[lt.intermediate] = "broken"]
            /\ hotStore' = [hotStore EXCEPT !.m = NoOne]
            /\ Returns(g, local[g].calls, Ret(local[g].op, local[g].key, TRUE))
       ELSE /\ hotObj' = [hotObj EXCEPT !.state[lt.intermediate] = "built"]
            /\ hotStore' = [hotStore EXCEPT
                               !.m = NoOne,
                               !.map = MapPut(@, local[g].key,
                                   [id |-> [id |-> lt.id.id,
                                            generation |-> lt.id.generation + 1],
                                    live |-> lt.intermediate,
                                    intermediate |-> lt.live,
                                    definition |-> lt.definition])]
            /\ Returns(g, local[g].calls,
                       Ret(local[g].op, local[g].key, FALSE))
    /\ UNCHANGED <<hotWatcher, ctxDone, fileOK, fatal>>
    /\ UNCHANGED ColdVars

\* the map entry Load registers for a new key
newEntry(obj) ==
    [id |-> [id |-> hotStore.idSeq + 1, generation |-> 0], live |-> obj,
     intermediate |-> Nil, definition |-> HotDefinition]

\* TextureStore.Load(key, def) up to the registration.  The map is read
\* without the store lock.  Loaded key: go on to take the lock and reload.
\* New key: draw an id, create the texture and load it; a texture that does
\* not load is destroyed and the error returned.
TextureStore_Load_enter(g) ==
    LET tex == newHotObject IN
    /\ scenario = "hotTexture"
    /\ CanCall(g)
    /\ \/ /\ MapWriter(g)
          /\ fatal' = TRUE
          /\ ret' = [Ret("Load", HotKey, FALSE) EXCEPT
                        !.returned = FALSE, !.panicked = TRUE]
          /\ UNCHANGED <<pc, local, hotStore, hotObj>>
       \/ /\ HotKey \in DOMAIN hotStore.map
          /\ pc' = [pc EXCEPT ![g] = "Load_replace"]
          /\ local' = [local EXCEPT ![g].calls = @ + 1, ![g].op = "Load",
                                    ![g].key = HotKey]
          /\ UNCHANGED <<ret, hotStore, hotObj, fatal>>
       \/ /\ HotKey \notin DOMAIN hotStore.map
          /\ hotStore' = [hotStore EXCEPT !.idSeq = @ + 1]
          /\ IF ~fileOK
             THEN /\ hotObj' = [hotObj EXCEPT !.names = @ + 1]
                  /\ Returns(g, local[g].calls + 1, Ret("Load", HotKey, TRUE))
             ELSE /\ hotObj' = [names |-> hotObj.names + 1,
                                state |-> MapPut(hotObj.state, tex, "built")]
                  /\ pc' = [pc EXCEPT ![g] = "Load_register"]
                  /\ local' = [local EXCEPT ![g].calls = @ + 1,
                                            ![g].op = "Load",
                                            ![g].key = HotKey,
                                            ![g].copy = newEntry(tex),
                                            ![g].obj = tex]
                  /\ UNCHANGED ret
          /\ UNCHANGED fatal
    /\ UNCHANGED <<hotWatcher, ctxDone, fileOK>>
    /\ UNCHANGED ColdVars

\* TextureStore.Load for a loaded key: take the store lock, set the
\* definition in the local copy of the entry and reload
TextureStore_Load_replace(g) ==
    /\ At(g, "Load_replace")
    /\ reload_begin(g, local[g].key, "Load", local[g].calls)
    /\ UNCHANGED <<hotWatcher, ctxDone, fileOK, fatal>>
    /\ UNCHANGED ColdVars

\* TextureStore.Load for a new key: the entry is written to the map, without
\* the store lock; then the path is handed to the watcher
TextureStore_Load_register(g) ==
    /\ At(g, "Load_register")
    /\ \/ /\ MapWriter(g)
          /\ fatal' = TRUE
          /\ ret' = [Ret("Load", local[g].key, FALSE) EXCEPT
                        !.returned = FALSE, !.panicked = TRUE]
          /\ UNCHANGED <<pc, local, hotStore>>
       \/ /\ hotStore' = [hotStore EXCEPT
                             !.map = MapPut(@, local[g].key, local[g].copy)]
          /\ pc' = [pc EXCEPT ![g] = "Add"]
          /\ local' = [local EXCEPT
                          ![g].paths = local[g].copy.definition,
                          ![g].before =
                              IF local[g].key \in DOMAIN hotStore.map
                              THEN hotStore.map[local[g].key].live ELSE Nil]
          /\ UNCHANGED <<ret, fatal>>
    /\ UNCHANGED <<hotWatcher, hotObj, ctxDone, fileOK>>
    /\ UNCHANGED ColdVars

\* ShaderStore.Load(key, def) up to the calls of Watcher.Add, entered with
\* the store lock free.  The lock is taken.  Loaded key: the lock is taken a
\* second time, which blocks for good (sync.RWMutex is not reentrant).  New
\* key: draw an id, create the program and load it; a program that does not
\* load is destroyed and the error returned, else the entry is registered.
ShaderStore_Load_enter(g) ==
    LET program == newHotObject IN
    /\ scenario \in HotShaderRuns
    /\ CanCall(g)
    /\ hotStore.m = NoOne
    /\ IF HotKey \in DOMAIN hotStore.map
       THEN /\ hotStore' = [hotStore EXCEPT !.m = g]
            /\ pc' = [pc EXCEPT ![g] = "Load_relock"]
            /\ local' = [local EXCEPT ![g].calls = @ + 1, ![g].op = "Load",
                                      ![g].key = HotKey]
            /\ UNCHANGED <<ret, hotObj>>
       ELSE IF ~fileOK
       THEN /\ hotStore' = [hotStore EXCEPT !.idSeq = @ + 1]
            /\ hotObj' = [hotObj EXCEPT !.names = @ + 1]
            /\ Returns(g, local[g].calls + 1, Ret("Load", HotKey, TRUE))
       ELSE /\ hotStore' = [hotStore EXCEPT
                               !.m = g,
                               !.idSeq = @ + 1,
                               !.map = MapPut(@, HotKey, newEntry(program))]
            /\ hotObj' = [names |-> hotObj.names + 1,
                          state |-> MapPut(hotObj.state, program, "built")]
            /\ pc' = [pc EXCEPT ![g] = "Add"]
            /\ local' = [local EXCEPT ![g].calls = @ + 1, ![g].op = "Load",
                                      ![g].key = HotKey,
                                      ![g].paths = HotDefinition,
                                      ![g].obj = program]
            /\ UNCHANGED ret
    /\ UNCHANGED <<hotWatcher, ctxDone, fileOK, fatal>>
    /\ UNCHANGED ColdVars

\* Watcher.Add(path, key) for the next path of the definition Load
\* registered, under the watcher lock; after the last path Load returns
\* (ShaderStore.Load releases the store lock)
Watcher_Add(g) ==
    LET path == Head(local[g].paths)
        targets == WatcherAdd(hotWatcher.targets, path, local[g].key)
        first == Len(targets[path]) = 1
    IN
    /\ At(g, "Add")
    /\ hotWatcher.m = FreeLock
    /\ hotWatcher' = [hotWatcher EXCEPT
                         !.targets = targets,
                         !.registered =
                             IF hotWatcher.watcher = "open" /\ first
                             THEN @ \cup {path} ELSE @]
    /\ IF Tail(local[g].paths) = <<>>
       THEN /\ Returns(g, local[g].calls,
                       [Ret("Load", local[g].key, FALSE) EXCEPT
                           !.created = local[g].obj,
                           !.before = [id |-> ZeroID, obj |-> local[g].before]])
            /\ hotStore' = [hotStore EXCEPT
                               !.m = IF @ = g THEN NoOne ELSE @]
       ELSE /\ local' = [local EXCEPT ![g].paths = Tail(@)]
            /\ UNCHANGED <<pc, ret, hotStore>>
    /\ UNCHANGED <<hotObj, ctxDone, fileOK, fatal>>
    /\ UNCHANGED ColdVars

\* the keys of the map as a slice, in the order a range loop may visit them
RECURSIVE KeyOrder(_)
KeyOrder(keys) ==
    IF keys = {} THEN <<>>
    ELSE LET k == CHOOSE x \in keys : TRUE
         IN  <<k>> \o KeyOrder(keys \ {k})

\* unload(key) of the first of keys, up to the calls of Watcher.Remove, with
\* the store lock held by g: a key that is not loaded is skipped with a
\* warning; after the last key the lock is released and the call returns
unload_begin(g, op, keys, calls) ==
    LET loaded == SelectSeq(keys, LAMBDA k : k \in DOMAIN hotStore.map) IN
    IF loaded = <<>>
    THEN /\ hotStore' = [hotStore EXCEPT !.m = NoOne]
         /\ Returns(g, calls, Ret(op, NoKey, FALSE))
    ELSE /\ hotStore' = [hotStore EXCEPT !.m = g]
         /\ pc' = [pc EXCEPT ![g] = "Remove"]
         /\ local' = [local EXCEPT ![g] =
                         [IdleFrame(calls) EXCEPT
                             !.op = op, !.key = Head(loaded),
                             !.keys = Tail(loaded),
                             !.copy = hotStore.map[Head(loaded)],
                             !.paths = hotStore.map[Head(loaded)].definition]]
         /\ UNCHANGED ret

\* Store.Unload(key): take the store lock and unload
Unload_enter(g) ==
    /\ CanCall(g)
    /\ hotStore.m = NoOne
    /\ unload_begin(g, "Unload", <<HotKey>>, local[g].calls + 1)
    /\ UNCHANGED <<hotWatcher, hotObj, ctxDone, fileOK, fatal>>
    /\ UNCHANGED ColdVars

\* Store.UnloadAll, called by a caller or by Destroy: take the store lock
\* and unload every key of the map
UnloadAll_enter(g) ==
    /\ CanCall(g) \/ At(g, "UnloadAll")
    /\ hotStore.m = NoOne
    /\ unload_begin(g, IF pc[g] = "idle" THEN "UnloadAll" ELSE "Destroy",
                    KeyOrder(DOMAIN hotStore.map),
                    IF pc[g] = "idle" THEN local[g].calls + 1
                    ELSE local[g].calls)
    /\ UNCHANGED <<hotWatcher, hotObj, ctxDone, fileOK, fatal>>
    /\ UNCHANGED ColdVars

\* unload: Watcher.Remove(path, key) for the next path of the definition,
\* under the watcher lock.  After the last path the objects of the entry are
\* destroyed and the key is deleted, and unload goes on to the next key.
Watcher_Remove(g) ==
    LET path == Head(local[g].paths)
        rm == WatcherRemove(hotWatcher.targets, path, local[g].key)
        last == ~rm.err /\ Len(rm.targets[path]) = 0
        lt == local[g].copy
        gone == {lt.live, lt.intermediate} \ {Nil}
        store == [hotStore EXCEPT !.map = MapDel(@, local[g].key)]
    IN
    /\ At(g, "Remove")
    /\ hotStore.m = g
    /\ hotWatcher.m = FreeLock
    /\ hotWatcher' = [hotWatcher EXCEPT
                         !.targets = rm.targets,
                         !.registered =
                             IF hotWatcher.watcher # "nil" /\ last
                             THEN @ \ {path} ELSE @]
    /\ IF Tail(local[g].paths) # <<>>
       THEN /\ local' = [local EXCEPT ![g].paths = Tail(@)]
            /\ UNCHANGED <<pc, ret, hotStore, hotObj>>
       ELSE /\ hotObj' = [hotObj EXCEPT
                             !.state = [o \in (DOMAIN @) \ gone |-> @[o]]]
            /\ IF local[g].keys = <<>>
               THEN /\ hotStore' = [store EXCEPT !.m = NoOne]
                    /\ Returns(g, local[g].calls,
                               Ret(local[g].op, NoKey, FALSE))
               ELSE /\ hotStore' = store
                    /\ local' = [local EXCEPT
                          ![g].key = Head(local[g].keys),
                          ![g].keys = Tail(local[g].keys),
                          ![g].copy = store.map[Head(local[g].keys)],
                          ![g].paths = store.map[Head(local[g].keys)].definition]
                    /\ UNCHANGED <<pc, ret>>
    /\ UNCHANGED <<ctxDone, fileOK, fatal>>
    /\ UNCHANGED ColdVars

\* Store.Destroy up to the call of UnloadAll: s.cancelHotReloading is called.
\* Calling the nil function panics (nil pointer dereference), which ends the
\* process.
Destroy_enter(g) ==
    /\ CanCall(g)
    /\ IF hotStore.cancelHotReloading = NilFunc
       THEN /\ fatal' = TRUE
            /\ ret' = [Ret("Destroy", NoKey, FALSE) EXCEPT
                          !.returned = FALSE, !.panicked = TRUE]
            /\ UNCHANGED <<pc, local, ctxDone>>
       ELSE /\ ctxDone' = TRUE
            /\ pc' = [pc EXCEPT ![g] = "UnloadAll"]
            /\ local' = [local EXCEPT ![g].calls = @ + 1, ![g].op = "Destroy"]
            /\ UNCHANGED <<ret, fatal>>
    /\ UNCHANGED <<hotStore, hotWatcher, hotObj, fileOK>>
    /\ UNCHANGED ColdVars

\* TextureStore.Definition(key): the definition pointer of the map entry is
\* dereferenced, without the store lock.  The entry of a key that is not
\* loaded is the zero loadedTexture, whose definition is nil: the dereference
\* panics.
TextureStore_Definition(g) ==
    /\ scenario = "hotTexture"
    /\ CanCall(g)
    /\ \/ /\ HotKey \notin DOMAIN hotStore.map \/ MapWriter(g)
          /\ fatal' = TRUE
          /\ ret' = [Ret("Definition", HotKey, FALSE) EXCEPT
                        !.returned = FALSE, !.panicked = TRUE,
                        !.wasLoaded = HotKey \in DOMAIN hotStore.map]
          /\ UNCHANGED <<pc, local>>
       \/ /\ HotKey \in DOMAIN hotStore.map
          /\ Returns(g, local[g].calls + 1,
                     [Ret("Definition", HotKey, FALSE) EXCEPT
                         !.wasLoaded = TRUE,
                         !.table = hotStore.map[HotKey].definition])
          /\ UNCHANGED fatal
    /\ UNCHANGED <<hotStore, hotWatcher, hotObj, ctxDone, fileOK>>
    /\ UNCHANGED ColdVars

\* Store.resolve(key) under the shared store lock, as the first step of a
\* draw: the live object of the entry, nil for a key that is not loaded (the
\* draw is skipped)
Store_resolve(g) ==
    /\ CanCall(g)
    /\ hotStore.m = NoOne
    /\ IF HotKey \notin DOMAIN hotStore.map
       THEN Returns(g, local[g].calls + 1, Ret("resolve", HotKey, FALSE))
       ELSE /\ pc' = [pc EXCEPT ![g] = "Draw"]
            /\ local' = [local EXCEPT ![g].calls = @ + 1, ![g].op = "Draw",
                                      ![g].key = HotKey,
                                      ![g].obj = hotStore.map[HotKey].live]
            /\ UNCHANGED ret
    /\ UNCHANGED <<hotStore, hotWatcher, hotObj, ctxDone, fileOK, fatal>>
    /\ UNCHANGED ColdVars

\* the draw that resolved the object has issued its last call on it
Draw_return(g) ==
    /\ At(g, "Draw")
    /\ Returns(g, local[g].calls,
               [Ret("Draw", local[g].key, FALSE) EXCEPT
                   !.created = local[g].obj])
    /\ UNCHANGED <<hotStore, hotWatcher, hotObj, ctxDone, fileOK, fatal>>
    /\ UNCHANGED ColdVars

(* --------------------------- specification ---------------------------- *)
vars == <<scenario, texFiles, textures, texIDSeq, texNames, texObj, texWatch,
          activeBindings, texBinding, texSeen, shaderFiles, shaderPrograms,
          sProgIDSeq, progNames, progObj, shaderWatch, shaderM, shaderSeen,
          materials, meshes, rs, glCalls, applied, elementArrayBuffer, geometry,
          pc, local, hotStore,
          hotWatcher, hotObj, ctxDone, fileOK, fatal, ret>>

\* newTextureStore, newShaderStore; the files exist; the application has
\* created its materials and built its meshes
Built ==
    /\ texFiles = [p \in CleanTexPaths |-> IF p = "10.png" THEN 1 ELSE 2]
    /\ textures = <<>>
    /\ texIDSeq = 0
    /\ texNames = 0
    /\ texObj = <<>>
    /\ texWatch = <<>>
    /\ texBinding = <<>>
    /\ texSeen = [k \in TexKeys |-> 0]
    /\ shaderFiles = [p \in ShaderPaths |-> IF p = "a.glsl" THEN 1 ELSE 2]
    /\ shaderPrograms = <<>>
    /\ sProgIDSeq = 0
    /\ progNames = 0
    /\ progObj = <<>>
    /\ shaderWatch = <<>>
    /\ shaderM = "free"
    /\ shaderSeen = [k \in ShaderKeys |-> 0]
    /\ materials = [m \in Materials |-> NewMaterial(m, "sh:a")]
    /\ meshes = [m \in Meshes |-> BuildMesh(m)]
    /\ rs = newRenderState
    /\ glCalls = NoCalls
    /\ applied = <<>>
    /\ elementArrayBuffer = LastIndexed
    /\ geometry = ZeroGeometry
    /\ HotBuilt

Setup ==
    /\ Built
    /\ activeBindings = newSamplerManager(MaxSampler)
    /\ ret = Ret("init", NoKey, FALSE)

Init ==
    /\ scenario \in Scenarios
    /\ Setup

Next ==
    \/ \E k \in TexKeys, d \in TexPaths : TextureStore_Load(k, d)
    \/ \E k \in TexKeys : TextureStore_Reload(k)
    \/ \E k \in TexKeys : TextureStore_Unload(k)
    \/ TextureStore_UnloadAll
    \/ \E p \in CleanTexPaths, c \in FileContents : SetTexFile(p, c)
    \/ \E k \in ShaderKeys, d \in ShaderDefs : ShaderStore_Load(k, d)
    \/ \E k \in ShaderKeys : ShaderStore_Reload(k)
    \/ \E k \in ShaderKeys : ShaderStore_Unload(k)
    \/ ShaderStore_UnloadAll
    \/ \E p \in ShaderPaths, c \in FileContents : SetShaderFile(p, c)

Spec == Init /\ [][Next]_vars

\* a sampler run: textures are bound and unbound while the TextureStore is
\* loaded, reloaded and unloaded
SamplerInit ==
    /\ scenario = "sampler"
    /\ Built
    /\ \E n \in 1..MaxSampler : activeBindings = newSamplerManager(n)
    /\ ret = Ret("init", NoKey, FALSE)

SamplerNext ==
    \/ \E k \in TexKeys, d \in TexPaths : TextureStore_Load(k, d)
    \/ \E k \in TexKeys : TextureStore_Reload(k)
    \/ \E k \in TexKeys : TextureStore_Unload(k)
    \/ TextureStore_UnloadAll
    \/ \E k \in TexKeys : samplerManager_bind(k)
    \/ \E k \in TexKeys : samplerManager_unbind(k)

SamplerSpec == SamplerInit /\ [][SamplerNext]_vars

\* a validation run: one call of AssertValidGeometry with arguments the
\* caller chose
GeometryInit ==
    /\ scenario = "geometry"
    /\ Built
    /\ activeBindings = newSamplerManager(MaxSampler)
    /\ \E g \in GeometryInputs :
          ret = [Ret("geometry", NoKey, FALSE) EXCEPT !.geometry = g]

GeometryNext == Geometry_AssertValid

GeometrySpec == GeometryInit /\ [][GeometryNext]_vars

\* a rendering run: frames are drawn while the shader the materials were
\* created with is loaded, reloaded and unloaded
RenderInit ==
    /\ scenario = "render"
    /\ Setup

\* the key the materials of a rendering run were created with
RenderKeys == {"sh:a"}

RenderNext ==
    \/ \E k \in RenderKeys, d \in ShaderDefs : ShaderStore_Load(k, d)
    \/ \E k \in RenderKeys : ShaderStore_Reload(k)
    \/ \E k \in RenderKeys : ShaderStore_Unload(k)
    \/ \E m \in Meshes : Mesh_Draw(m)
    \/ Engine_renderFrame

RenderSpec == RenderInit /\ [][RenderNext]_vars

\* a run in which the application changes its meshes between the draws
SceneInit ==
    /\ scenario = "scene"
    /\ Setup

SceneNext ==
    \/ \E k \in RenderKeys, d \in ShaderDefs : ShaderStore_Load(k, d)
    \/ \E m \in Meshes : Mesh_Draw(m)
    \/ \E m \in Meshes, d \in MeshData : Mesh_SetVertexData(m, d)
    \/ \E m \in Meshes : Mesh_SetIndexSubData(m)
    \/ Engine_renderFrame

SceneSpec == SceneInit /\ [][SceneNext]_vars

\* a run that builds one geometry and appends to it
AppendInit ==
    /\ scenario = "append"
    /\ Setup

AppendNext ==
    \/ \E d \in GeometryParts : NewGeometry(d)
    \/ \E d \in GeometryParts : Geometry_AppendGeometry(d)

AppendSpec == AppendInit /\ [][AppendNext]_vars

\* a hot-reloading run: two goroutines call the API of one store while the
\* watch loop reloads what changes on disk
HotInit ==
    /\ scenario \in {"hotTexture", "hotShader"}
    /\ Setup

\* the steps of goroutine g
GoroutineNext(g) ==
    \/ StartHotReloading(g)
    \/ Watcher_Watch(g)
    \/ Watcher_Watch_return(g)
    \/ loop_ctxDone(g)
    \/ loop_event(g)
    \/ onFileChanged(g)
    \/ onFileChanged_return(g)
    \/ Reload_enter(g)
    \/ reload_finish(g)
    \/ TextureStore_Load_enter(g)
    \/ TextureStore_Load_replace(g)
    \/ TextureStore_Load_register(g)
    \/ ShaderStore_Load_enter(g)
    \/ Watcher_Add(g)
    \/ Unload_enter(g)
    \/ UnloadAll_enter(g)
    \/ Watcher_Remove(g)
    \/ Destroy_enter(g)
    \/ TextureStore_Definition(g)
    \/ Store_resolve(g)
    \/ Draw_return(g)

HotNext ==
    \/ \E g \in Goroutines : GoroutineNext(g)
    \/ CancelContext
    \/ \E p \in HotPaths, ok \in BOOLEAN : FileChanged(p, ok)

HotSpec == HotInit /\ [][HotNext]_vars

\* a hot-reloading run of the ShaderStore with a program whose vertex and
\* fragment shader are one file
OneFileInit ==
    /\ scenario = "hotShaderOneFile"
    /\ Setup

\* the steps of goroutine g on the ShaderStore
ShaderGoroutineNext(g) ==
    \/ StartHotReloading(g)
    \/ Watcher_Watch(g)
    \/ Watcher_Watch_return(g)
    \/ loop_ctxDone(g)
    \/ loop_event(g)
    \/ onFileChanged(g)
    \/ onFileChanged_return(g)
    \/ Reload_enter(g)
    \/ reload_finish(g)
    \/ ShaderStore_Load_enter(g)
    \/ Watcher_Add(g)
    \/ Unload_enter(g)
    \/ UnloadAll_enter(g)
    \/ Watcher_Remove(g)
    \/ Destroy_enter(g)
    \/ Store_resolve(g)
    \/ Draw_return(g)

OneFileNext ==
    \/ \E g \in Goroutines : ShaderGoroutineNext(g)
    \/ CancelContext
    \/ \E p \in HotPaths, ok \in BOOLEAN : FileChanged(p, ok)

HotOneFileSpec == OneFileInit /\ [][OneFileNext]_vars

\* goroutine g is inside a call and takes its next step
Continue(g) ==
    /\ pc[g] # "idle"
    /\ GoroutineNext(g)

\* the scheduler lets every goroutine that can go on do so
HotFairSpec ==
    /\ HotInit
    /\ [][HotNext]_vars
    /\ \A g \in Goroutines : WF_vars(Continue(g))



(* ------------------------------- claims ------------------------------- *)
Range(q) == {q[i] : i \in 1..Len(q)}

NilResolve == [id |-> ZeroID, obj |-> Nil]

\* C1: a Reload of a loaded key whose build fails returns an error and
\* leaves resolve returning the same live object and the same
\* {id, generation} as before the call (TextureStore and ShaderStore)
C1_FailedReloadKeepsLive ==
    /\ (ret.op = "Reload" /\ ret.wasLoaded /\ ret.buildFailed) =>
          /\ ret.err
          /\ TextureStore_resolve(ret.key) = ret.before
          /\ ret.before.obj \in DOMAIN texObj
    /\ (ret.op = "ShaderReload" /\ ret.wasLoaded /\ ret.buildFailed) =>
          /\ ret.err
          /\ ShaderStore_resolve(ret.key) = ret.before
          /\ ret.before.obj \in DOMAIN progObj

\* a failed Reload of a texture that was already rebuilt once
C1_Witness ==
    /\ ret.op = "Reload" /\ ret.wasLoaded /\ ret.buildFailed
    /\ ret.before.id.generation >= 1

\* C2 (as claimed): TextureStore.Load on a loaded key rebuilds the texture
\* from the definition passed to this call: the size reported is that of the
\* new definition's file, the generation is incremented, the id is kept
C2_LoadRebuildsFromNewDefinition ==
    (ret.op = "Load" /\ ret.wasLoaded /\ ~ret.err) =>
        /\ ret.size = texFiles[ret.arg]
        /\ texObj[TextureStore_resolve(ret.key).obj] = texFiles[ret.arg]
        /\ TextureStore_resolve(ret.key).id =
              [id |-> ret.before.id.id,
               generation |-> ret.before.id.generation + 1]

GenerationStep(m, n, seq, ops, r) ==
    \A k \in DOMAIN n :
        IF k \in DOMAIN m
        THEN /\ n[k].id.id = m[k].id.id
             /\ n[k].id.generation \in
                   {m[k].id.generation, m[k].id.generation + 1}
             /\ n[k].id.generation = m[k].id.generation + 1 <=>
                   (r.op \in ops /\ r.key = k /\ ~r.err /\ r.returned)
        ELSE /\ n[k].id.id > seq
             /\ n[k].id.generation = 0

C4_ShaderLoadReplaces ==
    (ret.op = "ShaderLoad" /\ ret.wasLoaded) =>
        /\ ret.returned
        /\ shaderM = "free"
        /\ IF ret.err
           THEN ShaderStore_resolve(ret.key) = ret.before
           ELSE ShaderStore_resolve(ret.key).id =
                   [id |-> ret.before.id.id,
                    generation |-> ret.before.id.generation + 1]

\* C5: a Load of a key that is not loaded, whose build fails, returns an
\* error and registers nothing: no map entry, no watcher entry for the key,
\* and the object created for the attempt is destroyed
C5_FailedLoadRegistersNothing ==
    /\ (ret.op = "Load" /\ ~ret.wasLoaded /\ ret.buildFailed) =>
          /\ ret.err
          /\ ret.key \notin DOMAIN textures
          /\ TextureStore_resolve(ret.key) = NilResolve
          /\ \A p \in DOMAIN texWatch : ret.key \notin Watched(texWatch, p)
          /\ ret.created # Nil
          /\ ret.created \notin DOMAIN texObj
          /\ ret.destroyed = <<ret.created>>
    /\ (ret.op = "ShaderLoad" /\ ~ret.wasLoaded /\ ret.buildFailed) =>
          /\ ret.err
          /\ ret.key \notin DOMAIN shaderPrograms
          /\ ShaderStore_resolve(ret.key) = NilResolve
          /\ \A p \in DOMAIN shaderWatch : ret.key \notin Watched(shaderWatch, p)
          /\ ret.created # Nil
          /\ ret.created \notin DOMAIN progObj
          /\ ret.destroyed = <<ret.created>>

\* a failed first Load while another key is loaded and watched
C5_Witness ==
    /\ ret.op = "Load" /\ ~ret.wasLoaded /\ ret.buildFailed
    /\ textures # <<>>

\* what an unload of the objects in ret.owned must leave behind: each
\* destroyed once, none of them alive
DestroyedOnce(objs) ==
    /\ Range(ret.destroyed) = ret.owned
    /\ Len(ret.destroyed) = Cardinality(ret.owned)
    /\ ret.owned \cap DOMAIN objs = {}

\* C6: after Unload(k) or UnloadAll of loaded keys, resolve returns
\* (zero, nil), the live and the intermediate object were each destroyed
\* exactly once (they were alive until then), and the watcher lists the key
\* under no path
C6_UnloadReleasesEverything ==
    /\ TexOwned(DOMAIN textures) \subseteq DOMAIN texObj
    /\ ShaderOwned(DOMAIN shaderPrograms) \subseteq DOMAIN progObj
    /\ (ret.op = "Unload" /\ ret.wasLoaded) =>
          /\ TextureStore_resolve(ret.key) = NilResolve
          /\ ret.before.obj \in ret.owned
          /\ DestroyedOnce(texObj)
          /\ \A p \in DOMAIN texWatch : ret.key \notin Watched(texWatch, p)
    /\ ret.op = "UnloadAll" =>
          /\ textures = <<>>
          /\ DestroyedOnce(texObj)
          /\ \A p \in DOMAIN texWatch : Watched(texWatch, p) = {}
    /\ (ret.op = "ShaderUnload" /\ ret.wasLoaded) =>
          /\ ShaderStore_resolve(ret.key) = NilResolve
          /\ ret.before.obj \in ret.owned
          /\ DestroyedOnce(progObj)
          /\ \A p \in DOMAIN shaderWatch : ret.key \notin Watched(shaderWatch, p)
    /\ ret.op = "ShaderUnloadAll" =>
          /\ shaderPrograms = <<>>
          /\ DestroyedOnce(progObj)
          /\ \A p \in DOMAIN shaderWatch : Watched(shaderWatch, p) = {}

\* an Unload of a key that had a live and an intermediate texture
C6_Witness ==
    /\ ret.op = "Unload" /\ ret.wasLoaded
    /\ Cardinality(ret.owned) = 2

\* C7: no two texture keys share a sampler, every bound key's sampler is
\* marked active, and no more than maxSampler samplers are occupied
C7_SamplerTable ==
    /\ \A k1, k2 \in DOMAIN texBinding :
          k1 # k2 => texBinding[k1].sampler # texBinding[k2].sampler
    /\ \A k \in DOMAIN texBinding :
          /\ texBinding[k].sampler \in Samplers
          /\ activeBindings[texBinding[k].sampler]
    /\ Cardinality(DOMAIN texBinding) <= maxSampler
    /\ Cardinality({i \in Samplers : activeBindings[i]}) <= maxSampler

\* a key was bound, unbound, and another key then bound
C7_Witness ==
    /\ ret.op = "bind" /\ ~ret.reported
    /\ ret.table = <<>>
    /\ ret.key = "tex:b"
    /\ DOMAIN texBinding = {"tex:b"}
    /\ \E i \in Samplers : activeBindings[i]

\* C8: bind of a resolvable key without a sampler, when every sampler is
\* taken by other keys, reports a failure, returns, and leaves the table
\* as it was
C8_BindWhenFull ==
    (ret.op = "bind" /\ ret.full) =>
        /\ ret.reported
        /\ ret.returned
        /\ texBinding = ret.table
        /\ ret.key \notin DOMAIN texBinding
        /\ \A i \in Samplers : activeBindings[i]

C8_Witness ==
    /\ ret.op = "bind" /\ ret.full
    /\ Cardinality(DOMAIN ret.table) = maxSampler

\* what the calls applied[1..n] of a frame must have pushed if a material is
\* pushed by the first call and by every call whose material differs from
\* the one of the call before it
RECURSIVE PushedBy(_, _)
PushedBy(log, n) ==
    IF n = 0
    THEN [apply |-> 0, Uniform |-> 0, bind |-> 0]
    ELSE LET p == PushedBy(log, n - 1)
             mat == materials[log[n].material]
             declared == ActiveUniforms(log[n].source)
         IN
         IF n = 1 \/ log[n - 1].material # log[n].material
         THEN [apply |-> p.apply + 1,
               Uniform |-> p.Uniform
                             + Cardinality(mat.uniformf \cap declared),
               bind |-> p.bind
                          + Cardinality(DOMAIN mat.textures \cap declared)]
         ELSE p

\* C9: on one RenderState, applyMaterial pushes the material's uniform
\* values and texture bindings on the first call and whenever the material
\* object differs from the one of the previous call, and never on a call
\* that repeats the material of the previous call: two successive calls
\* with one material push once, two different materials once each.
C9_MaterialPushedOncePerChange ==
    LET p == PushedBy(applied, Len(applied)) IN
    /\ glCalls.apply = p.apply
    /\ glCalls.Uniform = p.Uniform
    /\ glCalls.bind = p.bind
    /\ applied # <<>> => rs.material = applied[Len(applied)].material

\* two successive calls with mat1 (one float uniform, one texture) were made
\* for two meshes and pushed once
C9_Witness ==
    /\ Len(applied) = 2
    /\ applied[1].material = "mat1" /\ applied[2].material = "mat1"
    /\ applied[1].mesh # applied[2].mesh
    /\ glCalls.apply = 1 /\ glCalls.Uniform = 1 /\ glCalls.bind = 1

\* every draw call of the frame so far used one material and resolved it to
\* one program id
SharedMaterialFrame ==
    /\ applied # <<>>
    /\ \A i \in 1..Len(applied) :
          /\ applied[i].material = applied[1].material
          /\ applied[i].id = applied[1].id

\* C10: within one frame, k draws of non-empty meshes sharing one material
\* whose shader is loaded give totalDrawCalls = k, one shader activation, one
\* push of the material and, when the program declares modelTransform, k
\* pushes of the model transform (none otherwise).
C10_SharedMaterialFrameCounts ==
    SharedMaterialFrame =>
        /\ rs.totalDrawCalls = Len(applied)
        /\ glCalls.UseProgram = 1
        /\ glCalls.apply = 1
        /\ glCalls.modelTransform =
              IF applied[1].source = 1 THEN Len(applied) ELSE 0

\* mesh1 and mesh2, sharing mat1, were drawn in one frame with a program
\* that declares modelTransform
C10_Witness ==
    /\ SharedMaterialFrame
    /\ {applied[i].mesh : i \in 1..Len(applied)} = {"mesh1", "mesh2"}
    /\ applied[1].source = 1
    /\ rs.totalDrawCalls = 2
    /\ glCalls.modelTransform = 2
    /\ glCalls.UseProgram = 1

\* the defects of a geometry the validation is said to reject
NotDivisible(len, vertexCount) ==
    IF vertexCount = 0 THEN len # 0 ELSE len % vertexCount # 0

IndexOutOfRange(g) ==
    \E i \in 1..Len(g.indices) : g.indices[i] >= g.vertexCount

ArityViolated(g) ==
    \/ g.primitiveType = "TRIANGLES" /\ Len(g.indices) % 3 # 0
    \/ g.primitiveType = "LINES" /\ Len(g.indices) % 2 # 0
    \/ g.primitiveType \in {"TRIANGLE_STRIP", "TRIANGLE_FAN"}
          /\ Len(g.indices) < 2

\* C11: AssertValidGeometry reports a failure for every input whose vertex
\* data length is not divisible by vertexCount, or that has an index >=
\* vertexCount, or whose index count violates the arity rule of the
\* primitive type.
C11_InvalidGeometryRejected ==
    (/\ ret.op = "AssertValidGeometry"
     /\ \/ NotDivisible(ret.geometry.vertices, ret.geometry.vertexCount)
        \/ IndexOutOfRange(ret.geometry)
        \/ ArityViolated(ret.geometry))
    => ret.reported

\* the watch loops that were started and have not returned
RunningLoops == {l \in Loops : pc[l] \notin {"none", "exited"}}

\* a call of StartHotReloading has not returned yet
HotReloadingRuns == \E g \in Callers : pc[g] \in {"Watch", "done"}

\* C12: a StartHotReloading call made while hot-reloading of the store runs
\* returns an error, starts no watch loop and leaves the running loop, the
\* watcher and the stored cancel function as they are; there is never more
\* than one watch loop.
C12_SecondStartRefused ==
    [][/\ Cardinality(RunningLoops') <= 1
       /\ \A g \in Callers :
             (/\ HotReloadingRuns
              /\ pc[g] = "idle"
              /\ local'[g].calls = local[g].calls + 1
              /\ \/ pc'[g] = "Watch"
                 \/ pc'[g] = "idle" /\ ret'.op = "StartHotReloading")
             => /\ pc'[g] = "idle"
                /\ ret'.err
                /\ hotStore'.cancelHotReloading = hotStore.cancelHotReloading
                /\ hotWatcher' = hotWatcher
                /\ \A l \in Loops : pc'[l] = pc[l]]_vars

\* a second call was refused while the loop of the first one waits for events
C12_Witness ==
    /\ ret.op = "StartHotReloading"
    /\ ret.err
    /\ ret.arg = "g2"
    /\ hotStore.cancelHotReloading = "g1"
    /\ pc["g1"] = "done"
    /\ pc["loop1"] = "select"
    /\ hotStore.map # <<>>

\* C13: once the context is cancelled (by its owner or by Destroy), every
\* StartHotReloading call that is blocked returns and its watch loop exits,
\* unless the process dies first.
C13_CancelledLoopExits ==
    \A g \in Callers :
        (ctxDone /\ pc[g] \in {"Watch", "done"})
            ~> (fatal \/ (pc[g] = "idle" /\ pc[LoopOf(g)] \in {"none", "exited"}))

\* C14: TextureStore.Definition returns, without crashing, the stored
\* definition of a loaded key and the empty definition of a key that is not
\* loaded.
C14_DefinitionOfAnyKey ==
    ret.op = "Definition" =>
        /\ ret.returned
        /\ ~ret.panicked
        /\ ret.table = IF ret.wasLoaded THEN HotDefinition ELSE <<>>

\* C15: Destroy on a store whose StartHotReloading was never called (no
\* cancel function is stored) returns without crashing.
C15_DestroyWithoutHotReloading ==
    (ret.op = "Destroy" /\ hotStore.cancelHotReloading = NilFunc) =>
        /\ ret.returned
        /\ ~ret.panicked

\* goroutine g holds the store lock and waits, in Watcher.Add or
\* Watcher.Remove, for the watcher lock, which loop l holds shared while its
\* callback waits, in Reload, for the store lock
LockCycle(g, l) ==
    /\ hotStore.m = g
    /\ pc[g] \in {"Add", "Remove"}
    /\ l \in hotWatcher.m.r
    /\ pc[l] = "onChanged"
    /\ local[l].keys # <<>>

\* C16: the hot-reload callback and a concurrent Load or Unload never wait
\* for each other's lock.
C16_NoLockCycle ==
    \A g \in Callers, l \in Loops : ~LockCycle(g, l)

\* C17: the object a draw got from resolve is completely built for as long
\* as the draw uses it; no reload builds into it meanwhile.
C17_ResolvedObjectStaysBuilt ==
    \A g \in Callers :
        (pc[g] = "Draw" /\ local[g].obj \in DOMAIN hotObj.state) =>
            /\ hotObj.state[local[g].obj] = "built"
            /\ \A h \in Goroutines :
                   pc[h] = "reload" => local[h].copy.intermediate # local[g].obj

\* C18: a Load that created an object for a key it found not loaded
\* registers it while the key is still not loaded: two concurrent Load calls
\* never both create and register an object for the key.
C18_OneLoadRegisters ==
    (ret.op = "Load" /\ ~ret.err /\ ret.created # Nil) => ret.before.obj = Nil

\* C19: a bind of a key that resolves and has or gets a sampler writes the
\* index of that sampler to the sampler uniform.
C19_UniformIsOwnSampler ==
    (ret.op = "bind" /\ ~ret.reported /\ ret.key \in DOMAIN texBinding) =>
        ret.uniform = texBinding[ret.key].sampler

\* C20: a bind of a key whose recorded texture id differs from the id the
\* store resolves records the resolved id; the sampler of the key and the
\* entries of the other keys are left as they are.
C20_RebindRecordsGeneration ==
    (/\ ret.op = "bind"
     /\ ~ret.reported
     /\ ret.key \in DOMAIN ret.table
     /\ ret.table[ret.key].texture # TextureStore_resolve(ret.key).id)
    => /\ DOMAIN texBinding = DOMAIN ret.table
       /\ texBinding[ret.key].texture = TextureStore_resolve(ret.key).id
       /\ texBinding[ret.key].sampler = ret.table[ret.key].sampler
       /\ \A k \in DOMAIN ret.table \ {ret.key} : texBinding[k] = ret.table[k]
\* the draw of mesh m gets as far as applyMaterial and its shader resolves
DrawResolves(m) ==
    /\ meshes[m].indexCount # 0
    /\ ShaderStore_resolve(materials[meshes[m].material].sProgKey).obj # Nil

\* the calls among applied[1..n] that found another id than the call before
\* them recorded (the first call of a frame finds the zero id recorded)
Activating(log, n) ==
    {i \in 1..n : i = 1 \/ log[i - 1].id # log[i].id}

\* C21: applyMaterial, for a shader that resolves, activates the program
\* (and pushes the view-projection matrix when the program has that uniform)
\* if and only if the resolved id differs from the id the RenderState
\* recorded last, and afterwards the recorded id is the resolved one; so a
\* reload between two draws of a frame gives one more activation and a draw
\* with an unchanged id none.
C21_ActivatedIffIdChanged ==
    LET n == Len(applied)
        activating == Activating(applied, n)
    IN  /\ glCalls.UseProgram = Cardinality(activating)
        /\ glCalls.vpMatrix =
              Cardinality({i \in activating : applied[i].source = 1})
        /\ rs.sProgID = IF n = 0 THEN ZeroID ELSE applied[n].id

\* two draws of one frame with a reload of the shader between them: the
\* program was activated once for each, and the new id is recorded
C21_Witness ==
    /\ Len(applied) = 2
    /\ applied[1].id.id = applied[2].id.id
    /\ applied[1].id.generation # applied[2].id.generation
    /\ glCalls.UseProgram = 2
    /\ rs.sProgID = applied[2].id

\* the paths the watcher lists at least one key for
PathsWithKeys(targets) == {p \in DOMAIN targets : targets[p] # <<>>}

\* Watcher.Remove(path, key) on targets fails exactly when key is not listed
\* for path, and then leaves targets as they are
RemoveFailsIffAbsent(targets, path, key) ==
    LET rm == WatcherRemove(targets, path, key) IN
    /\ rm.err <=> key \notin Watched(targets, Clean(path))
    /\ rm.err => rm.targets = targets

\* C22: while the Watcher is watching, the paths registered with the
\* filesystem watcher are the paths whose key list is not empty, whatever
\* Add and Remove calls were made before or after Watch started; and
\* Remove(path, key) returns an error exactly when (path, key) is not
\* registered, leaving the registry unchanged.
C22_RegisteredIffKeys ==
    /\ hotWatcher.watcher = "open" =>
          hotWatcher.registered = PathsWithKeys(hotWatcher.targets)
    /\ \A p \in HotPaths :
          RemoveFailsIffAbsent(hotWatcher.targets, p, HotKey)

\* C23: for every write, create or rename event on a watched path the watch
\* loop invokes onChanged exactly once for each key registered under the
\* path and for no other key, so the store reloads each interested key once
\* per event, also when a shader program names one file as vertex and as
\* fragment shader; a failing Reload does not stop the loop.
C23_OneReloadPerKey ==
    [][\A l \in Loops :
          LET registered == Watched(hotWatcher.targets, Head(local[l].paths))
          IN  /\ (Reload_enter(l) /\ pc[l] = "onChanged") =>
                     Head(local[l].keys) \in registered
              /\ onFileChanged_return(l) =>
                     local[l].calls = Cardinality(registered)]_vars

\* what a draw counts: the indices of an indexed mesh, else its vertices
DrawCount(m) == IF m.ibo THEN m.indexCount ELSE m.vertexCount

\* C24: a Mesh.Draw that issues a draw call adds 1 to totalDrawCalls and to
\* totalPrimitives the primitive count the arity of the primitive type gives
\* for the index count of an indexed mesh or the vertex count of a mesh
\* without indices (n/3 for TRIANGLES, n-2 for strips and fans, ...); a Draw
\* of an empty mesh or with a shader that does not resolve changes neither.
C24_DrawCounters ==
    [][\A m \in Meshes :
          Mesh_Draw(m) =>
              IF DrawResolves(m)
              THEN /\ rs'.totalDrawCalls = rs.totalDrawCalls + 1
                   /\ rs'.totalPrimitives =
                         rs.totalPrimitives
                           + determinePrimitiveCount(DrawCount(meshes'[m]),
                                                     meshes[m].primitiveType)
              ELSE /\ rs'.totalDrawCalls = rs.totalDrawCalls
                   /\ rs'.totalPrimitives = rs.totalPrimitives]_vars

\* C25: whenever the Draw of a mesh with indices issues its DrawElements
\* call, the buffer bound to ELEMENT_ARRAY_BUFFER is the index buffer of that
\* mesh, whatever SetVertexData, SetIndexSubData and Draw calls were made
\* before on this and on other meshes.
C25_OwnIndexBufferBound ==
    [][\A m \in Meshes :
          (Mesh_Draw(m) /\ DrawResolves(m) /\ meshes[m].ibo) =>
              elementArrayBuffer = m]_vars


\* C26: the GPU objects created and not destroyed are exactly the live and
\* the recorded intermediate objects of the loaded keys, so no object
\* outlives the entry that created it, failed reloads included
C26_NoOrphanObjects ==
    /\ DOMAIN texObj = TexOwned(DOMAIN textures)
    /\ DOMAIN progObj = ShaderOwned(DOMAIN shaderPrograms)


\* the draw of mesh m follows a draw of the same material in this frame, and
\* the key of the material resolves to another program id than it did then
ProgramChangedSinceLastDraw(m) ==
    LET n == Len(applied) IN
    /\ n > 0
    /\ applied[n].material = meshes[m].material
    /\ applied[n].id #
          ShaderStore_resolve(materials[meshes[m].material].sProgKey).id

\* C27: when the program behind a material changed between two consecutive
\* draws of that material, the second draw activates the new program and
\* pushes the material's uniforms to it (Material.apply runs)
C27_UniformsFollowProgram ==
    [][\A m \in Meshes :
          (Mesh_Draw(m) /\ DrawResolves(m) /\ ProgramChangedSinceLastDraw(m))
             => /\ glCalls'.UseProgram = glCalls.UseProgram + 1
                /\ glCalls'.apply = glCalls.apply + 1]_vars

\* the part of C27 the code does: the new program is activated
Adhoc27_NewProgramActivated ==
    [][\A m \in Meshes :
          (Mesh_Draw(m) /\ DrawResolves(m) /\ ProgramChangedSinceLastDraw(m))
             => /\ glCalls'.UseProgram = glCalls.UseProgram + 1
                /\ rs'.sProgID = ShaderStore_resolve(
                                    materials[meshes[m].material].sProgKey).id
                /\ glCalls'.apply = glCalls.apply]_vars


\* C28: every occupied sampler belongs to a loaded texture key, so Unload
\* frees the sampler of its key and a bind finds the table full only when
\* the loaded keys hold every sampler
C28_SlotsOfLoadedKeys ==
    /\ DOMAIN texBinding \subseteq DOMAIN textures
    /\ \A i \in Samplers :
          activeBindings[i] =>
             \E k \in DOMAIN textures \cap DOMAIN texBinding :
                texBinding[k].sampler = i
    /\ (ret.op = "bind" /\ ret.full) =>
          Cardinality(DOMAIN textures \ {ret.key}) >= maxSampler

\* the part of C28 the code keeps: every occupied sampler belongs to a key
\* of texBinding, and only samplerManager.unbind frees a sampler
Adhoc28_OnlyUnbindFrees ==
    [][/\ \A i \in Samplers :
             activeBindings[i] <=>
                \E k \in DOMAIN texBinding : texBinding[k].sampler = i
       /\ (\E i \in Samplers : activeBindings[i] /\ ~activeBindings'[i])
             => ret'.op = "unbind"]_vars


\* the arity rule of primitive type t applied to the count n
ArityRuleViolated(t, n) ==
    \/ t = "LINE_STRIP" /\ n < 1
    \/ t = "LINES" /\ n % 2 # 0
    \/ t \in {"TRIANGLE_STRIP", "TRIANGLE_FAN"} /\ n < 2
    \/ t = "TRIANGLES" /\ n % 3 # 0

ArityMessage == "Index count is incompatible with primitive type"

\* C30: for a geometry without indices AssertValidGeometry reports an arity
\* error if and only if the vertex count violates the arity rule of the
\* primitive type
C30_ArityOfVertexCount ==
    (ret.op = "AssertValidGeometry" /\ ret.geometry.indices = <<>>)
    => (ArityMessage \in ret.reports
           <=> ArityRuleViolated(ret.geometry.primitiveType,
                                 ret.geometry.vertexCount))

\* what the code does instead: with or without indices the rule is applied
\* to the length of the index slice
Adhoc30_ArityOfIndexCount ==
    ret.op = "AssertValidGeometry"
    => (ArityMessage \in ret.reports
           <=> ArityRuleViolated(ret.geometry.primitiveType,
                                 Len(ret.geometry.indices)))


\* the geometry d passes AssertValidGeometry
ValidGeometry(d) ==
    AssertValidGeometry(d.vertexCount, d.vertices, d.indices,
                        d.primitiveType, Len(d.vertexAttributes)) = {}

\* what Append asks of the geometry g and the appended data d
Mergeable(g, d) ==
    /\ ValidGeometry(g) /\ ValidGeometry(d)
    /\ g.primitiveType = d.primitiveType
    /\ d.primitiveType \in {"POINTS", "LINES", "TRIANGLES"}
    /\ g.vertexAttributes = d.vertexAttributes
    /\ g.bufferLayout = InterleavedBuffer
    /\ d.bufferLayout = InterleavedBuffer

\* the geometry after Append(d) on g, as C29 describes it
MergedAsAppended(g, d) ==
    LET n == Len(g.indices) IN
    /\ ValidGeometry(geometry)
    /\ geometry.vertexCount = g.vertexCount + d.vertexCount
    /\ geometry.vertices = g.vertices + d.vertices
    /\ Len(geometry.indices) = n + Len(d.indices)
    /\ SubSeq(geometry.indices, 1, n) = g.indices
    /\ \A i \in 1..Len(d.indices) :
          geometry.indices[n + i] = d.indices[i] + g.vertexCount

\* C29: Append of valid data to a valid geometry of the same primitive type
\* (POINTS, LINES or TRIANGLES), attributes and interleaved layout leaves a
\* valid geometry: the vertex counts add up, the old vertices and indices
\* are its prefix and every appended index is offset by the old vertex
\* count without wrap-around, also when only one part has indices
C29_AppendPreservesValidity ==
    (ret.op = "Append" /\ Mergeable(ret.before, ret.geometry))
    => MergedAsAppended(ret.before, ret.geometry)

\* the part of C29 the code keeps: both parts indexed, or both not indexed
\* with vertices of one size
Adhoc29_SameKindOfParts ==
    (/\ ret.op = "Append" /\ Mergeable(ret.before, ret.geometry)
     /\ (ret.before.indices = <<>>) <=> (ret.geometry.indices = <<>>)
     /\ ret.before.vertices * ret.geometry.vertexCount
           = ret.geometry.vertices * ret.before.vertexCount)
    => MergedAsAppended(ret.before, ret.geometry)

====
